---- MODULE Spec2Model ----
(***************************************************************************)
(* A state-machine model of google-calendar-cli: the retry decorator, the  *)
(* free-slot finder, event update, the operation history with undo, and    *)
(* token health / credential loading.  Each component has its own          *)
(* specification (SpecRetry, SpecSlots, ...); the variables of the other   *)
(* components stay at their idle values.                                   *)
(***************************************************************************)
EXTENDS Integers, Sequences, FiniteSets, TLC

VARIABLES
    rCfg,       \* with_retry arguments: max_retries, backoff_factor, initial_delay
    rState,     \* wrapper position: "idle", "running", "returned", "raised"
    rAttempt,   \* loop variable `attempt`
    rCalls,     \* number of invocations of the wrapped function
    rSleeps,    \* arguments of time.sleep, in call order
    rLast,      \* last_exception
    rValue,     \* value returned or exception raised by the wrapper
    rTrace,     \* outcome of every invocation of the wrapped function
    histFile,   \* history.json: absent, or its "operations" list
    hCount,     \* number of add_operation calls made so far
    hPattern,   \* which of the appended operations are undoable
    hRet,       \* what the last history read returned
    fasIn,      \* arguments of find_available_slots and the free/busy response
    fasPc,      \* "idle", or "done" once find_available_slots has finished
    fasOut,     \* what find_available_slots returned or raised
    events,     \* the remote calendar "primary": event id -> event resource
    nextId,     \* number of events the server has created
    apiLast,    \* the last CalendarAPI call: arguments, fetched and submitted event
    secondary,  \* the secondary calendars: calendar id -> ids of its events
    cliLast,    \* the last CLI command and how it ended
    cliCount,   \* number of CLI commands run
    tokUnified, \* ~/.google/tokens/google_<account>.json: absent or its content
    tokService, \* ~/.google/tokens/calendar_<account>.json: absent or its content
    tokLast,    \* the last authentication call and what it returned
    tokSteps,   \* number of authentication calls made
    prefFile,   \* ~/.google/preferences.json: absent, corrupt, or a JSON object
    prefLast,   \* the last preference call: arguments, what was loaded, result
    prefCalls,  \* number of preference calls made
    ctFile,     \* ~/.google/contacts.json: absent, corrupt, or its content
    ctLast,     \* the last contacts call: arguments, content before, result
    ctCalls,    \* number of contacts calls made
    tplDir,     \* ~/.google/templates: template name -> its file
    tplLast,    \* the last template call: arguments, result
    tplCalls,   \* number of template calls made
    acctFile,   \* the shared config file ~/.google/config.json
    acctProcess,\* the process environment of the next invocation
    acctLast,   \* the last account operation and what it gave
    acctCalls,  \* number of account operations made
    stLast,     \* the last call on a local store and how it ended
    stCalls,    \* number of such calls made
    mgIn,       \* a free/busy response handed to the merge step
    mgOut,      \* None, or the merged busy periods computed from mgIn
    nsOp,       \* the retry-wrapped operation that calls another one
    nsPc,       \* "idle", "inner" or "outer" (next remote call), "returned", "raised"
    nsAttempt,  \* `attempt` of the outer and of the inner wrapper
    nsCalls,    \* remote calls made by the outer and by the inner operation
    nsValue,    \* None, or the exception the outer wrapper raised
    rcStore,    \* the file two processes update at once: "history" or "prefs"
    rcPc,       \* position of each process in its read-modify-write
    rcLocal,    \* what each process holds in memory after its read
    slIn,       \* arguments of a find_available_slots call followed loop by loop
    slPc,       \* "idle", "day" and "slot" (loop heads), "body" (in the slot loop), "done"
    slDay,      \* current_date, day_end, slot_start and the iterations made on this day
    slSlots,    \* available_slots
    slOut,      \* None, or what the call returned or raised
    insIn,      \* keyword arguments of the create_event call in progress
    insPc,      \* "idle", "running", "returned", "raised"
    insAttempt, \* `attempt` of the wrapper around create_event
    insValue    \* None, or what the call returned or raised

varsRetry == <<rCfg, rState, rAttempt, rCalls, rSleeps, rLast, rValue, rTrace>>
varsHist == <<histFile, hCount, hPattern, hRet>>
varsSlots == <<fasIn, fasPc, fasOut>>
varsCal == <<events, nextId, secondary, apiLast, cliLast, cliCount>>
varsTok == <<tokUnified, tokService, tokLast, tokSteps>>
varsPref == <<prefFile, prefLast, prefCalls>>
varsContacts == <<ctFile, ctLast, ctCalls>>
varsTpl == <<tplDir, tplLast, tplCalls>>
varsAcct == <<acctFile, acctProcess, acctLast, acctCalls>>
varsStore == <<stLast, stCalls>>
varsMerge == <<mgIn, mgOut>>
varsNest == <<nsOp, nsPc, nsAttempt, nsCalls, nsValue>>
varsRace == <<rcStore, rcPc, rcLocal>>
varsLoop == <<slIn, slPc, slDay, slSlots, slOut>>
varsIns == <<insIn, insPc, insAttempt, insValue>>
varsMore == <<varsMerge, varsNest, varsRace, varsLoop, varsIns>>
varsLocal == <<varsPref, varsContacts, varsTpl, varsAcct, varsStore, varsMore>>

vars == <<varsRetry, varsHist, varsSlots, varsCal, varsTok, varsLocal>>

\* what an action of one component leaves alone: the other components
frameRetry == <<varsHist, varsSlots, varsCal, varsTok, varsLocal>>
frameHist == <<varsRetry, varsSlots, varsCal, varsTok, varsLocal>>
frameSlots == <<varsRetry, varsHist, varsCal, varsTok, varsLocal>>
frameCal == <<varsRetry, varsSlots, varsTok, varsLocal>>
frameTok == <<varsRetry, varsHist, varsSlots, varsCal, varsLocal>>
frameMore == <<varsRetry, varsHist, varsSlots, varsCal, varsTok, varsPref,
               varsContacts, varsTpl, varsAcct, varsStore>>
\* what an action of one of the later components leaves alone
moreMergeRest == <<varsNest, varsRace, varsLoop, varsIns>>
frameMergeOnly == <<frameMore, moreMergeRest>>
moreNestRest == <<varsMerge, varsRace, varsLoop, varsIns>>
frameNestOnly == <<frameMore, moreNestRest>>
moreRaceRest == <<varsMerge, varsNest, varsLoop, varsIns>>
frameRaceOnly == <<frameMore, moreRaceRest>>
moreLoopRest == <<varsMerge, varsNest, varsRace, varsIns>>
frameLoopOnly == <<frameMore, moreLoopRest>>
moreInsRest == <<varsMerge, varsNest, varsRace, varsLoop>>
frameInsOnly == <<frameMore, moreInsRest>>

framePref == <<varsRetry, varsHist, varsSlots, varsCal, varsTok, varsAcct, varsStore, varsMore>>

(***************************************************************************)
(* Python values: None and optional values.                                *)
(***************************************************************************)
None == <<>>
Some(x) == <<x>>
IsNone(o) == Len(o) = 0
Val(o) == o[1]

(***************************************************************************)
(* Text: a string is a sequence of one-character strings.                  *)
(***************************************************************************)
LowerChar(c) ==
    CASE c = "A" -> "a" [] c = "B" -> "b" [] c = "C" -> "c" [] c = "D" -> "d"
      [] c = "E" -> "e" [] c = "F" -> "f" [] c = "G" -> "g" [] c = "H" -> "h"
      [] c = "I" -> "i" [] c = "J" -> "j" [] c = "K" -> "k" [] c = "L" -> "l"
      [] c = "M" -> "m" [] c = "N" -> "n" [] c = "O" -> "o" [] c = "P" -> "p"
      [] c = "Q" -> "q" [] c = "R" -> "r" [] c = "S" -> "s" [] c = "T" -> "t"
      [] c = "U" -> "u" [] c = "V" -> "v" [] c = "W" -> "w" [] c = "X" -> "x"
      [] c = "Y" -> "y" [] c = "Z" -> "z" [] OTHER -> c

Lower(s) == [i \in 1..Len(s) |-> LowerChar(s[i])]

\* Python's `needle in haystack` on strings
Contains(haystack, needle) ==
    \E i \in 1..(Len(haystack) - Len(needle) + 1) :
        SubSeq(haystack, i, i + Len(needle) - 1) = needle

(***************************************************************************)
(* retry.py                                                                *)
(***************************************************************************)
RETRYABLE_STATUS_CODES == {500, 502, 503, 504}
MAX_RETRIES == 3
BACKOFF_FACTOR == 2
INITIAL_DELAY == 1

transient_keywords ==
    << <<"t","i","m","e","o","u","t">>,
       <<"c","o","n","n","e","c","t","i","o","n">>,
       <<"n","e","t","w","o","r","k">>,
       <<"t","e","m","p","o","r","a","r","y">>,
       <<"r","e","t","r","y">> >>

\* An exception: an HttpError carries resp.status; str(error) is its text.
HttpError(status, text) == [http |-> TRUE, status |-> status, text |-> text]
PlainError(text) == [http |-> FALSE, status |-> 0, text |-> text]

is_retryable_error(error) ==
    IF error.http
    THEN error.status \in RETRYABLE_STATUS_CODES
    ELSE \E k \in 1..Len(transient_keywords) :
             Contains(Lower(error.text), transient_keywords[k])

RECURSIVE Pow(_, _)
Pow(b, e) == IF e <= 0 THEN 1 ELSE b * Pow(b, e - 1)

\* retry.py:43 -- range(max_retries + 1) still has the index `attempt`
InRange(attempt, max_retries) == attempt < max_retries + 1

\* retry.py:50 -- "Don't retry on last attempt"
IsLastAttemptEarly(attempt, max_retries) == attempt + 1 >= max_retries
IsLastAttempt(attempt, max_retries) == attempt = max_retries

\* retry.py:58 -- delay with exponential backoff
BackoffDelayLinear(initial_delay, backoff_factor, attempt) ==
    initial_delay * backoff_factor * attempt
BackoffDelay(initial_delay, backoff_factor, attempt) ==
    initial_delay * Pow(backoff_factor, attempt)

\* Bounds of the retry specification
MaxRetriesBound == 3
MaxDelayBound == 2
MaxFactorBound == 3

T_Timeout == <<"R","e","a","d"," ","T","i","m","e","o","u","t">>
T_NotFound == <<"n","o","t"," ","f","o","u","n","d">>
T_Backend == <<"B","a","c","k","e","n","d"," ","E","r","r","o","r">>

\* The exceptions the wrapped function raises in this model
RetryErrors ==
    { HttpError(500, T_Backend), HttpError(503, T_Backend),
      HttpError(404, T_NotFound), HttpError(403, T_Timeout),
      PlainError(T_Timeout), PlainError(T_NotFound) }

RetryValues == {"v1", "v2"}

RetryCfgs ==
    [max_retries : 0..MaxRetriesBound,
     backoff_factor : 1..MaxFactorBound,
     initial_delay : 1..MaxDelayBound]

RetryIdle ==
    /\ rCfg = [max_retries |-> MAX_RETRIES, backoff_factor |-> BACKOFF_FACTOR,
               initial_delay |-> INITIAL_DELAY]
    /\ rState = "idle"
    /\ rAttempt = 0
    /\ rCalls = 0
    /\ rSleeps = <<>>
    /\ rLast = None
    /\ rValue = None
    /\ rTrace = <<>>

\* wrapper(*args, **kwargs) is entered: last_exception = None, attempt = 0
WrapperCall(cfg) ==
    /\ rState # "running"
    /\ rCfg' = cfg
    /\ rState' = "running"
    /\ rAttempt' = 0
    /\ rCalls' = 0
    /\ rSleeps' = <<>>
    /\ rLast' = None
    /\ rValue' = None
    /\ rTrace' = <<>>
    /\ UNCHANGED frameRetry

\* retry.py:44-45 -- func returns: the wrapper returns its value
AttemptReturns(v) ==
    /\ rState = "running"
    /\ InRange(rAttempt, rCfg.max_retries)
    /\ rCalls' = rCalls + 1
    /\ rTrace' = Append(rTrace, [ok |-> TRUE, value |-> v])
    /\ rState' = "returned"
    /\ rValue' = Some(v)
    /\ UNCHANGED <<rCfg, rAttempt, rSleeps, rLast>>
    /\ UNCHANGED frameRetry

\* retry.py:46-69 -- func raises e: break and raise last_exception on the last
\* attempt, re-raise a non-retryable error, otherwise sleep and loop
AttemptRaises(e) ==
    /\ rState = "running"
    /\ InRange(rAttempt, rCfg.max_retries)
    /\ rCalls' = rCalls + 1
    /\ rTrace' = Append(rTrace, [ok |-> FALSE, value |-> e])
    /\ rLast' = Some(e)
    /\ IF IsLastAttempt(rAttempt, rCfg.max_retries)
       THEN /\ rState' = "raised"
            /\ rValue' = rLast'
            /\ UNCHANGED <<rAttempt, rSleeps>>
       ELSE IF ~ is_retryable_error(e)
       THEN /\ rState' = "raised"
            /\ rValue' = Some(e)
            /\ UNCHANGED <<rAttempt, rSleeps>>
       ELSE /\ rSleeps' = Append(rSleeps,
                  BackoffDelay(rCfg.initial_delay, rCfg.backoff_factor, rAttempt))
            /\ rAttempt' = rAttempt + 1
            /\ UNCHANGED <<rState, rValue>>
    /\ UNCHANGED rCfg
    /\ UNCHANGED frameRetry

(***************************************************************************)
(* history.py                                                              *)
(***************************************************************************)
MAX_HISTORY_ENTRIES == 100

\* history.json is absent, or holds {"operations": [...]}
\* or text that json.load rejects
FileAbsent == [exists |-> FALSE, corrupt |-> FALSE, operations |-> <<>>]
FileWith(ops) == [exists |-> TRUE, corrupt |-> FALSE, operations |-> ops]
FileCorrupt == [exists |-> TRUE, corrupt |-> TRUE, operations |-> <<>>]

\* history.py:14-23 -- create the file with an empty list when it is missing
ensure_history_file(file) == IF file.exists THEN file ELSE FileWith(<<>>)

\* Python's seq[-n:] for n > 0
LastN(seq, n) ==
    IF Len(seq) <= n THEN seq ELSE SubSeq(seq, Len(seq) - n + 1, Len(seq))

\* Python's seq[:n]
FirstN(seq, n) == IF Len(seq) <= n THEN seq ELSE SubSeq(seq, 1, n)

\* history.py:51-53 -- keep only the last MAX_HISTORY_ENTRIES
TruncateKeepOldest(ops) ==
    IF Len(ops) > MAX_HISTORY_ENTRIES THEN FirstN(ops, MAX_HISTORY_ENTRIES) ELSE ops
TruncateHistory(ops) ==
    IF Len(ops) > MAX_HISTORY_ENTRIES THEN LastN(ops, MAX_HISTORY_ENTRIES) ELSE ops

\* history.py:26-58 -- the file after add_operation, when json.load reads it
add_operation(file, timestamp, operation_type, details, undoable, undo_func) ==
    LET history == ensure_history_file(file).operations
        operation == [timestamp |-> timestamp, type |-> operation_type,
                      details |-> details, undoable |-> undoable,
                      undo_func |-> undo_func]
    IN  FileWith(TruncateHistory(Append(history, operation)))

\* history.py:61-69
get_recent_operations(file, limit) ==
    LastN(ensure_history_file(file).operations, limit)

\* history.py:79-86 -- first undoable entry of reversed(operations), or None
RECURSIVE ScanForward(_, _)
ScanForward(ops, i) ==
    IF i > Len(ops) THEN None
    ELSE IF ops[i].undoable THEN Some(ops[i])
    ELSE ScanForward(ops, i + 1)

RECURSIVE ScanReversed(_, _)
ScanReversed(ops, i) ==
    IF i < 1 THEN None
    ELSE IF ops[i].undoable THEN Some(ops[i])
    ELSE ScanReversed(ops, i - 1)

FirstUndoable(ops) == ScanForward(ops, 1)
LastUndoable(ops) == ScanReversed(ops, Len(ops))

\* history.py:72-86
get_last_undoable_operation(file) ==
    LastUndoable(ensure_history_file(file).operations)

\* Bounds of the history specification
MaxAppends == 105
MaxPeriod == 3

\* The n-th appended operation is undoable iff n is a multiple of the period
\* and n is at most `upto`
HistPatterns == [period : 1..MaxPeriod, upto : {0, 4, MaxAppends}]

PatternUndoable(pat, n) == n % pat.period = 0 /\ n <= pat.upto

HistIdle ==
    /\ histFile = FileAbsent
    /\ hCount = 0
    /\ hPattern = [period |-> 1, upto |-> 0]
    /\ hRet = [called |-> FALSE, value |-> None]

\* One add_operation call as the CLI makes it: a create entry (undoable, undone
\* by delete) or a delete entry (not undoable)
AddOperation ==
    /\ hCount < MaxAppends
    /\ LET n == hCount + 1
           undoable == PatternUndoable(hPattern, n)
       IN  histFile' = add_operation(histFile, n,
                           IF undoable THEN "create" ELSE "delete",
                           [seq |-> n], undoable,
                           IF undoable THEN Some("delete") ELSE None)
    /\ hCount' = hCount + 1
    /\ hRet' = [called |-> FALSE, value |-> None]
    /\ UNCHANGED hPattern
    /\ UNCHANGED frameHist

\* One get_last_undoable_operation call
GetLastUndoable ==
    /\ ~ hRet.called
    /\ hRet' = [called |-> TRUE, value |-> get_last_undoable_operation(histFile)]
    /\ histFile' = ensure_history_file(histFile)
    /\ UNCHANGED <<hCount, hPattern>>
    /\ UNCHANGED frameHist

(***************************************************************************)
(* api.py: find_available_slots                                            *)
(*                                                                         *)
(* Instants are minutes since Monday 00:00 UTC of the model's first week;  *)
(* a local (wall-clock) time is minutes since Monday 00:00 on the wall.    *)
(***************************************************************************)
MinutesPerDay == 1440
MinutesPerHour == 60

At(day, hour, minute) == day * MinutesPerDay + hour * MinutesPerHour + minute

\* The time zone database: a zone has a UTC offset, and a zone with daylight
\* saving one transition (spring forward) on the Sunday of the first week.
ZoneDb ==
    [name \in {"UTC", "Asia/Tokyo", "America/New_York"} |->
        CASE name = "UTC" ->
               [before |-> 0, after |-> 0, transition |-> 0]
          [] name = "Asia/Tokyo" ->
               [before |-> 540, after |-> 540, transition |-> 0]
          [] name = "America/New_York" ->
               [before |-> -300, after |-> -240, transition |-> At(6, 7, 0)]]

\* ZoneInfo(key): the zone, or None when the key is unknown (ZoneInfo raises)
ZoneInfo(key) == IF key \in DOMAIN ZoneDb THEN Some(ZoneDb[key]) ELSE None

\* datetime.astimezone(tz) of an aware UTC datetime: the wall-clock time
ToLocal(zone, utc) ==
    utc + (IF utc >= zone.transition THEN zone.after ELSE zone.before)

\* datetime.astimezone(timezone.utc) of a wall-clock time with fold = 0: a
\* wall time inside the gap of the transition takes the offset before it
ToUtc(zone, wall) ==
    IF wall < zone.transition + zone.after
    THEN wall - zone.before
    ELSE wall - zone.after

DateOf(wall) == wall \div MinutesPerDay

\* date.weekday(): Monday = 0
Weekday(date) == date % 7

\* api.py:8 and api.py:513 -- `timezone` is imported from datetime at module
\* level, but inside find_available_slots the name is the parameter
\* `timezone: str`, so `timezone.utc` is an attribute lookup on the argument.
\* A Python object is modelled by its type and value.
PyStr(v) == [type |-> "str", value |-> v]
DatetimeTimezoneClass == [type |-> "type", value |-> "datetime.timezone"]
HasAttrUtc(obj) == obj = DatetimeTimezoneClass

\* api.py:538-563 -- busy periods of every calendar without errors, in
\* response order
RECURSIVE CollectBusy(_)
CollectBusy(calendars) ==
    IF Len(calendars) = 0 THEN <<>>
    ELSE LET cal_data == Head(calendars)
         IN  (IF cal_data.errors THEN <<>> ELSE cal_data.busy)
             \o CollectBusy(Tail(calendars))

\* api.py:566 -- list.sort(key=start): stable insertion into a sorted list
RECURSIVE InsertByStart(_, _)
InsertByStart(sorted, period) ==
    IF Len(sorted) = 0 THEN <<period>>
    ELSE IF sorted[Len(sorted)][1] <= period[1] THEN Append(sorted, period)
    ELSE Append(InsertByStart(SubSeq(sorted, 1, Len(sorted) - 1), period),
                sorted[Len(sorted)])

RECURSIVE SortByStart(_)
SortByStart(periods) ==
    IF Len(periods) = 0 THEN <<>>
    ELSE InsertByStart(SortByStart(SubSeq(periods, 1, Len(periods) - 1)),
                       periods[Len(periods)])

LaterStartEnd(a, b) == b

Max(a, b) == IF a >= b THEN a ELSE b

\* api.py:578-591 -- the merge loop over all_busy_periods[1:]
RECURSIVE MergeLoop(_, _, _, _, _)
MergeLoop(periods, i, current_start, current_end, merged_busy) ==
    IF i > Len(periods)
    THEN Append(merged_busy, <<current_start, current_end>>)
    ELSE IF periods[i][1] <= current_end
    THEN MergeLoop(periods, i + 1, current_start,
                   Max(current_end, periods[i][2]), merged_busy)
    ELSE MergeLoop(periods, i + 1, periods[i][1], periods[i][2],
                   Append(merged_busy, <<current_start, current_end>>))

\* api.py:568-592
MergeBusy(all_busy_periods) ==
    IF Len(all_busy_periods) = 0 THEN <<>>
    ELSE MergeLoop(all_busy_periods, 2, all_busy_periods[1][1],
                   all_busy_periods[1][2], <<>>)

\* api.py:647-659 -- no merged busy period overlaps the slot
SlotIsFree(slot_start_utc, slot_end_utc, merged_busy) ==
    \A k \in 1..Len(merged_busy) :
        slot_end_utc <= merged_busy[k][1] \/ slot_start_utc >= merged_busy[k][2]

\* api.py:639-669 -- the slot loop of one day (for a positive duration)
RECURSIVE SlotLoop(_, _, _, _, _, _, _, _)
SlotLoop(zone, duration, time_min, time_max, merged_busy, day_end, slot_start, slots) ==
    IF ~ (slot_start + duration <= day_end) THEN slots
    ELSE LET slot_end == slot_start + duration
             slot_start_utc == ToUtc(zone, slot_start)
             slot_end_utc == ToUtc(zone, slot_end)
             is_free == /\ SlotIsFree(slot_start_utc, slot_end_utc, merged_busy)
                        /\ ~ (slot_start_utc < time_min \/ slot_end_utc > time_max)
         IN  SlotLoop(zone, duration, time_min, time_max, merged_busy, day_end,
                      slot_start + duration,
                      IF is_free
                      THEN Append(slots, <<slot_start_utc, slot_end_utc>>)
                      ELSE slots)

\* api.py:622-671 -- the loop over the local dates of the window
RECURSIVE DayLoop(_, _, _, _, _, _)
DayLoop(a, zone, merged_busy, current_date, end_date, slots) ==
    IF ~ (current_date <= end_date) THEN slots
    ELSE IF a.exclude_weekends /\ Weekday(current_date) >= 5
    THEN DayLoop(a, zone, merged_busy, current_date + 1, end_date, slots)
    ELSE LET time_min_local == ToLocal(zone, a.time_min)
             time_max_local == ToLocal(zone, a.time_max)
             day_start0 == current_date * MinutesPerDay
                             + a.working_hours_start * MinutesPerHour
             day_end0 == current_date * MinutesPerDay
                             + a.working_hours_end * MinutesPerHour
             day_start == IF day_start0 < time_min_local
                          THEN time_min_local ELSE day_start0
             day_end == IF day_end0 > time_max_local
                        THEN time_max_local ELSE day_end0
         IN  DayLoop(a, zone, merged_busy, current_date + 1, end_date,
                     SlotLoop(zone, a.duration_minutes, a.time_min, a.time_max,
                              merged_busy, day_end, day_start, slots))

Raised(error) == [raised |-> TRUE, error |-> error, slots |-> <<>>]
Returned(slots) == [raised |-> FALSE, error |-> "", slots |-> slots]

\* api.py:504-679 -- the result of find_available_slots(a) when the free/busy
\* query answers a.freebusy.  Every path evaluates `timezone.utc` (api.py:602
\* when ZoneInfo raises, else api.py:606 or 608) before any slot is generated.
find_available_slots(a) ==
    LET merged_busy == MergeBusy(SortByStart(CollectBusy(a.freebusy)))
        zi == ZoneInfo(a.timezone.value)
    IN  IF ~ HasAttrUtc(a.timezone)
        THEN Raised("AttributeError: object has no attribute 'utc'")
        ELSE IF ~ ( a.working_hours_start \in 0..23
                    /\ a.working_hours_end \in 0..23 )
        THEN Raised("ValueError: hour must be in 0..23")
        ELSE LET zone == IF IsNone(zi) THEN ZoneDb["UTC"] ELSE Val(zi)
             IN  Returned(SortByStart(
                     DayLoop(a, zone, merged_busy,
                             DateOf(ToLocal(zone, a.time_min)),
                             DateOf(ToLocal(zone, a.time_max)), <<>>)))

\* Inputs of the slot specification
Cal(id, errors, busy) == [id |-> id, errors |-> errors, busy |-> busy]

FasResponses ==
    { << Cal("a@x", FALSE, <<>>) >>,
      << Cal("a@x", FALSE, << <<At(0, 10, 15), At(0, 10, 45)>> >>) >>,
      << Cal("a@x", FALSE, << <<At(0, 10, 30), At(0, 11, 0)>> >>) >>,
      << Cal("a@x", FALSE, << <<At(0, 13, 0), At(0, 14, 0)>>,
                             <<At(0, 9, 0), At(0, 10, 0)>> >>),
         Cal("b@x", FALSE, << <<At(0, 9, 30), At(0, 11, 0)>> >>) >>,
      << Cal("a@x", TRUE, << <<At(0, 10, 0), At(0, 10, 30)>> >>),
         Cal("b@x", FALSE, << <<At(0, 11, 0), At(0, 11, 30)>> >>) >> }

FasWindows ==
    { <<At(0, 10, 0), At(0, 11, 30)>>,
      <<At(0, 0, 0), At(1, 0, 0)>>,
      <<At(0, 8, 20), At(1, 12, 0)>>,
      <<At(5, 0, 0), At(8, 0, 0)>> }

FasTimezones == {"UTC", "Asia/Tokyo", "America/New_York", "Mars/Phobos"}

FasArgs ==
    { [attendee_emails |-> [i \in 1..Len(fb) |-> fb[i].id],
       duration_minutes |-> d,
       time_min |-> w[1],
       time_max |-> w[2],
       working_hours_start |-> wh[1],
       working_hours_end |-> wh[2],
       exclude_weekends |-> xw,
       timezone |-> PyStr(tz),
       freebusy |-> fb] :
         fb \in FasResponses, d \in {30, 60}, w \in FasWindows,
         wh \in {<<9, 18>>, <<0, 23>>, <<10, 12>>}, xw \in BOOLEAN,
         tz \in FasTimezones }

SlotsIdle ==
    /\ fasIn = None
    /\ fasPc = "idle"
    /\ fasOut = Raised("")

\* One call of find_available_slots
FindAvailableSlots(a) ==
    /\ fasPc = "idle"
    /\ fasIn' = Some(a)
    /\ fasPc' = "done"
    /\ fasOut' = find_available_slots(a)
    /\ UNCHANGED frameSlots

(***************************************************************************)
(* api.py: events.  An event resource is a function from field names to    *)
(* values; a field that is not in the domain is absent from the JSON.      *)
(***************************************************************************)
Put(event, key, value) ==
    [k \in (DOMAIN event) \cup {key} |-> IF k = key THEN value ELSE event[k]]

\* dict.pop(key, None)
Pop(event, key) == [k \in (DOMAIN event) \ {key} |-> event[k]]

Has(event, key) == key \in DOMAIN event

\* utils.py:79-92 -- parse_datetime: the datetime of a date string, or None;
\* a datetime is written in ISO form by isoformat()
parse_datetime(date_string) ==
    CASE date_string = "" -> None
      [] date_string = "2024-03-05 10:00" -> Some("2024-03-05T10:00:00")
      [] date_string = "March 5 2024 11am" -> Some("2024-03-05T11:00:00")
      [] date_string = "2024-03-05T12:00:00" -> Some("2024-03-05T12:00:00")
      [] date_string = "2024-03-04T08:00:00.000001" -> Some("2024-03-04T08:00:00.000001")
      [] date_string = "2024-03-05T10:00:00" -> Some("2024-03-05T10:00:00")
      [] OTHER -> None

\* datetime.utcnow().isoformat() while the model runs
UtcNowIso == "2024-03-04T08:00:00.000001"

\* (dt + timedelta(hours=1)).isoformat()
PlusOneHour(iso) ==
    CASE iso = "2024-03-04T08:00:00.000001" -> "2024-03-04T09:00:00.000001"
      [] iso = "2024-03-05T10:00:00" -> "2024-03-05T11:00:00"
      [] iso = "2024-03-05T11:00:00" -> "2024-03-05T12:00:00"
      [] iso = "2024-03-05T12:00:00" -> "2024-03-05T13:00:00"

\* Python truth value of an optional string argument
TruthyStr(o) == ~ IsNone(o) /\ Val(o) # ""

\* api.py:293-305 and 307-319 -- a new start or end, when it parses
TimeField(event, key, time_arg, timezone) ==
    IF ~ TruthyStr(time_arg) THEN event
    ELSE LET dt == parse_datetime(Val(time_arg))
         IN  IF IsNone(dt) THEN event
             ELSE Put(event, key, [dateTime |-> Val(dt), timeZone |-> timezone])

\* api.py:327-328
AttendeesField(event, attendees) ==
    IF IsNone(attendees) THEN event
    ELSE Put(event, "attendees",
             [i \in 1..Len(Val(attendees)) |-> [email |-> Val(attendees)[i]]])

\* api.py:336-340
ColorFieldNoRemoval(event, color_id) ==
    IF IsNone(color_id) THEN event
    ELSE Put(event, "colorId", Val(color_id))
ColorField(event, color_id) ==
    IF IsNone(color_id) THEN event
    ELSE IF Val(color_id) = "" THEN Pop(event, "colorId")
    ELSE Put(event, "colorId", Val(color_id))

\* api.py:342-353
MeetField(event, add_meet, remove_meet) ==
    IF remove_meet THEN Pop(event, "conferenceData")
    ELSE IF add_meet
    THEN Put(event, "conferenceData",
             [createRequest |-> [requestId |-> "uuid4",
                                 conferenceSolutionKey |-> "hangoutsMeet"]])
    ELSE event

\* api.py:321-322 -- description is set whenever it is not None
DescriptionField(event, description) ==
    IF IsNone(description) THEN event
    ELSE Put(event, "description", Val(description))

\* api.py:285-353 -- the body update_event submits for the fetched event
UpdateEventBody(fetched, kw) ==
    LET timezone ==
            IF TruthyStr(kw.timezone) THEN Val(kw.timezone)
            ELSE IF Has(fetched, "start") /\ "timeZone" \in DOMAIN fetched["start"]
                 THEN fetched["start"].timeZone
                 ELSE "UTC"
        e1 == IF TruthyStr(kw.summary)
              THEN Put(fetched, "summary", Val(kw.summary)) ELSE fetched
        e2 == TimeField(e1, "start", kw.start_time, timezone)
        e3 == TimeField(e2, "end", kw.end_time, timezone)
        e4 == DescriptionField(e3, kw.description)
        e5 == IF IsNone(kw.location) THEN e4
              ELSE Put(e4, "location", Val(kw.location))
        e6 == AttendeesField(e5, kw.attendees)
        e7 == IF IsNone(kw.recurrence) THEN e6
              ELSE Put(e6, "recurrence", Val(kw.recurrence))
        e8 == IF IsNone(kw.reminders) THEN e7
              ELSE Put(e7, "reminders", Val(kw.reminders))
        e9 == ColorField(e8, kw.color_id)
    IN  MeetField(e9, kw.add_meet, kw.remove_meet)

\* api.py:153-228 -- the body create_event inserts, or None when building it
\* raises (a start that does not parse and no end: event["start"] is missing)
CreateEventBody(kw) ==
    LET e0 == [k \in {"summary"} |-> kw.summary]
        e1 == IF TruthyStr(kw.start_time)
              THEN TimeField(e0, "start", kw.start_time, kw.timezone)
              ELSE Put(e0, "start", [dateTime |-> UtcNowIso, timeZone |-> kw.timezone])
        e2 == IF TruthyStr(kw.end_time)
              THEN TimeField(e1, "end", kw.end_time, kw.timezone)
              ELSE LET start_dt == parse_datetime(e1["start"].dateTime)
                   IN  IF IsNone(start_dt) THEN e1
                       ELSE Put(e1, "end", [dateTime |-> PlusOneHour(Val(start_dt)),
                                            timeZone |-> kw.timezone])
        e3 == IF TruthyStr(kw.description)
              THEN Put(e2, "description", Val(kw.description)) ELSE e2
        e4 == IF TruthyStr(kw.location)
              THEN Put(e3, "location", Val(kw.location)) ELSE e3
        e5 == IF ~ IsNone(kw.attendees) /\ Len(Val(kw.attendees)) > 0
              THEN AttendeesField(e4, kw.attendees) ELSE e4
    IN  IF ~ TruthyStr(kw.end_time) /\ ~ Has(e1, "start") THEN None ELSE Some(e5)

\* events().insert: the server stores the body under a new id
InsertedEvent(body, id) ==
    Put(Put(Put(body, "id", id), "kind", "calendar#event"), "etag", "etag-1")

\* The keyword arguments of update_event with their defaults (api.py:244-260)
NoUpdate ==
    [summary |-> None, start_time |-> None, end_time |-> None,
     description |-> None, location |-> None, attendees |-> None,
     recurrence |-> None, reminders |-> None, timezone |-> None,
     color_id |-> None, add_meet |-> FALSE, remove_meet |-> FALSE]

\* Events on the remote calendar at the start
BaseEvent(id) ==
    [k \in {"kind", "etag", "id", "summary", "start", "end"} |->
        CASE k = "kind" -> "calendar#event"
          [] k = "etag" -> "etag-1"
          [] k = "id" -> id
          [] k = "summary" -> "Standup"
          [] k = "start" -> [dateTime |-> "2024-03-04T09:00:00", timeZone |-> "UTC"]
          [] k = "end" -> [dateTime |-> "2024-03-04T09:30:00", timeZone |-> "UTC"]]

RichEvent(id) ==
    Put(Put(Put(Put(BaseEvent(id), "description", "daily"),
                "attendees", << [email |-> "a@x"], [email |-> "b@x"] >>),
            "colorId", "5"),
        "recurrence", <<"RRULE:FREQ=DAILY">>)

MeetEvent(id) == Put(BaseEvent(id), "conferenceData", [entryPoint |-> "meet"])

NoEvents == [id \in {} |-> BaseEvent(id)]

\* The account owns one secondary calendar besides "primary"
OneSecondaryCalendar == [id \in {"work"} |-> {}]

CalIdle ==
    /\ events = NoEvents
    /\ nextId = 0
    /\ secondary = OneSecondaryCalendar
    /\ apiLast = [op |-> "none"]
    /\ cliLast = [cmd |-> "none"]
    /\ cliCount = 0

\* api.py:243-370 -- one update_event call: get_event, then events().update
\* with the changed body; a missing event makes get_event raise
ApiUpdateEvent(event_id, kw) ==
    /\ apiLast.op = "none"
    /\ IF event_id \in DOMAIN events
       THEN LET fetched == events[event_id]
                body == UpdateEventBody(fetched, kw)
            IN  /\ events' = [events EXCEPT ![event_id] = body]
                /\ apiLast' = [op |-> "update_event", raised |-> FALSE,
                               kw |-> kw, fetched |-> fetched, submitted |-> body]
       ELSE /\ apiLast' = [op |-> "update_event", raised |-> TRUE, kw |-> kw]
            /\ UNCHANGED events
    /\ UNCHANGED <<nextId, secondary, cliLast, cliCount>>
    /\ UNCHANGED varsHist
    /\ UNCHANGED frameCal

UpdateArgs ==
    [summary : {None, Some("Retro"), Some("")},
     start_time : {None, Some("2024-03-05 10:00"), Some("whenever")},
     end_time : {None, Some("March 5 2024 11am")},
     description : {None, Some("notes"), Some("")},
     location : {None, Some("Room 1")},
     attendees : {None, Some(<<>>), Some(<<"c@x">>)},
     recurrence : {None, Some(<<>>)},
     reminders : {None, Some([useDefault |-> FALSE])},
     timezone : {None, Some("Asia/Tokyo")},
     color_id : {None, Some(""), Some("7")},
     add_meet : BOOLEAN,
     remove_meet : BOOLEAN]

(***************************************************************************)
(* Specifications                                                          *)
(***************************************************************************)
(***************************************************************************)
(* api.py, people.py: the operations decorated with @with_retry().  Each   *)
(* runs its remote call inside `try: ... except HttpError as error: raise  *)
(* Exception(f"Failed to ...: {error}")`, so the wrapper of retry.py sees  *)
(* a plain Exception whose text embeds str(HttpError).                     *)
(***************************************************************************)
RetryWrappedOps ==
    {"get_profile", "list_calendars", "list_events", "get_event",
     "create_event", "update_event", "delete_event", "list_contacts"}

\* The message prefix of each operation's `raise Exception(f"Failed to ...")`
FailedTo(op) ==
    CASE op = "get_profile" -> <<"F","a","i","l","e","d"," ","t","o"," ","g","e","t"," ","p","r","o","f","i","l","e",":"," ">>
      [] op = "list_calendars" -> <<"F","a","i","l","e","d"," ","t","o"," ","l","i","s","t"," ","c","a","l","e","n","d","a","r","s",":"," ">>
      [] op = "list_events" -> <<"F","a","i","l","e","d"," ","t","o"," ","l","i","s","t"," ","e","v","e","n","t","s",":"," ">>
      [] op = "get_event" -> <<"F","a","i","l","e","d"," ","t","o"," ","g","e","t"," ","e","v","e","n","t",":"," ">>
      [] op = "create_event" -> <<"F","a","i","l","e","d"," ","t","o"," ","c","r","e","a","t","e"," ","e","v","e","n","t",":"," ">>
      [] op = "update_event" -> <<"F","a","i","l","e","d"," ","t","o"," ","u","p","d","a","t","e"," ","e","v","e","n","t",":"," ">>
      [] op = "delete_event" -> <<"F","a","i","l","e","d"," ","t","o"," ","d","e","l","e","t","e"," ","e","v","e","n","t",":"," ">>
      [] op = "list_contacts" -> <<"F","a","i","l","e","d"," ","t","o"," ","l","i","s","t"," ","c","o","n","t","a","c","t","s",":"," ">>

\* str(status) for the statuses the remote service answers with in this model
StatusText(status) ==
    CASE status = 400 -> <<"4","0","0">>
      [] status = 403 -> <<"4","0","3">>
      [] status = 404 -> <<"4","0","4">>
      [] status = 408 -> <<"4","0","8">>
      [] status = 500 -> <<"5","0","0">>
      [] status = 502 -> <<"5","0","2">>
      [] status = 503 -> <<"5","0","3">>
      [] status = 504 -> <<"5","0","4">>

\* The reason phrase of the remote error response
ReasonText(status) ==
    CASE status = 400 -> <<"B","a","d"," ","R","e","q","u","e","s","t">>
      [] status = 403 -> <<"R","a","t","e"," ","L","i","m","i","t"," ","E","x","c","e","e","d","e","d">>
      [] status = 404 -> <<"N","o","t"," ","F","o","u","n","d">>
      [] status = 408 -> <<"R","e","q","u","e","s","t"," ","T","i","m","e","o","u","t">>
      [] status = 500 -> <<"B","a","c","k","e","n","d"," ","E","r","r","o","r">>
      [] status = 502 -> <<"B","a","d"," ","G","a","t","e","w","a","y">>
      [] status = 503 -> <<"S","e","r","v","i","c","e"," ","U","n","a","v","a","i","l","a","b","l","e">>
      [] status = 504 -> <<"G","a","t","e","w","a","y"," ","T","i","m","e","o","u","t">>

RequestUri == <<"h","t","t","p","s",":","/","/","w","w","w",".","g","o","o","g","l","e","a","p","i","s",".","c","o","m","/","c","a","l","e","n","d","a","r","/","v","3","/","c","a","l","e","n","d","a","r","s","/","p","r","i","m","a","r","y","/","e","v","e","n","t","s","?","a","l","t","=","j","s","o","n">>

\* str(HttpError): <HttpError 503 when requesting URI returned "reason">
HttpErrorStr(status) ==
    <<"<","H","t","t","p","E","r","r","o","r"," ">> \o StatusText(status) \o
    <<" ","w","h","e","n"," ","r","e","q","u","e","s","t","i","n","g"," ">> \o RequestUri \o
    <<" ","r","e","t","u","r","n","e","d"," ","\"">> \o ReasonText(status) \o <<"\"",">">>

\* The HttpError that .execute() raises for a response with this status
RemoteHttpError(status) == HttpError(status, HttpErrorStr(status))

\* except HttpError as error: raise Exception(f"Failed to ...: {error}") --
\* a plain Exception; the HttpError stays reachable as its __context__
WrappedApiError(op, error) ==
    [http |-> FALSE, status |-> 0, text |-> FailedTo(op) \o error.text,
     context |-> error.status]

RemoteStatuses == {400, 403, 404, 408, 500, 502, 503, 504}

\* A retry-wrapped operation is called: the wrapper starts with the
\* decorator's default arguments
ApiCall(op) ==
    /\ rState # "running"
    /\ rCfg' = [max_retries |-> MAX_RETRIES, backoff_factor |-> BACKOFF_FACTOR,
                initial_delay |-> INITIAL_DELAY]
    /\ rState' = "running"
    /\ rAttempt' = 0
    /\ rCalls' = 0
    /\ rSleeps' = <<>>
    /\ rLast' = None
    /\ rValue' = None
    /\ rTrace' = <<>>
    /\ apiLast' = [op |-> op]
    /\ UNCHANGED <<events, nextId, secondary, cliLast, cliCount>>
    /\ UNCHANGED <<varsHist, varsSlots, varsTok, varsLocal>>

\* One attempt whose remote call answers 2xx
RemoteSucceeds ==
    /\ apiLast.op \in RetryWrappedOps
    /\ AttemptReturns("v1")

\* One attempt whose remote call answers with an error status: the method
\* body wraps the HttpError and the wrapper of retry.py handles the wrapped one
RemoteFails(status) ==
    /\ apiLast.op \in RetryWrappedOps
    /\ AttemptRaises(WrappedApiError(apiLast.op, RemoteHttpError(status)))

(***************************************************************************)
(* auth.py, shared_auth.py: token files, token health, credential loading. *)
(* The account is named explicitly, so the unified file is                 *)
(* google_<account>.json and the service file is calendar_<account>.json.  *)
(* A scope list is modelled by its set of scopes.                          *)
(***************************************************************************)
CalendarReadonly == "https://www.googleapis.com/auth/calendar.readonly"
CalendarEvents == "https://www.googleapis.com/auth/calendar.events"
GmailReadonly == "https://www.googleapis.com/auth/gmail.readonly"

SCOPES == {CalendarReadonly, CalendarEvents}

\* What a token file can hold: text that does not load as an authorized-user
\* file, or the fields google-auth reads from it.  `expired` is whether the
\* stored expiry has passed (a file without expiry loads as expired).
UnreadableToken ==
    [readable |-> FALSE, token |-> FALSE, refresh_token |-> FALSE,
     scopes |-> {}, expired |-> FALSE]

TokenScopeSets == {SCOPES, SCOPES \cup {GmailReadonly}, {GmailReadonly},
                   {CalendarReadonly}}

TokenFiles ==
    {None, Some(UnreadableToken)} \cup
    {Some(f) : f \in [readable : {TRUE}, token : {TRUE},
                      refresh_token : BOOLEAN, scopes : TokenScopeSets,
                      expired : BOOLEAN]}

\* Path.exists()
Exists(file) == ~ IsNone(file)

\* google.oauth2.credentials.Credentials.from_authorized_user_file(path, scopes)
\* as called at shared_auth.py:233, shared_auth.py:316 and auth.py:55: None
\* when it raises; the scopes of the file are used only when the `scopes`
\* argument is None, and every call site passes a list.
from_authorized_user_file(file, scopes) ==
    IF ~ Val(file).readable THEN None
    ELSE Some([token |-> Val(file).token,
               refresh_token |-> Val(file).refresh_token,
               scopes |-> IF IsNone(scopes) THEN Val(file).scopes ELSE Val(scopes),
               expired |-> Val(file).expired])

\* Credentials.valid
Valid(creds) == creds.token /\ ~ creds.expired

\* creds.refresh(Request()) when the token endpoint answers with a new token
Refreshed(creds) == [creds EXCEPT !.token = TRUE, !.expired = FALSE]

\* creds.to_json() written to the token file
to_json(creds) ==
    Some([readable |-> TRUE, token |-> creds.token,
          refresh_token |-> creds.refresh_token, scopes |-> creds.scopes,
          expired |-> creds.expired])

\* `required_scopes or []`
OrEmpty(required_scopes) ==
    IF IsNone(required_scopes) THEN Some({}) ELSE required_scopes

\* shared_auth.py:221-222, 309-310, auth.py:38-39 -- the file the call reads
TokenFileOf(unified, service) == IF Exists(unified) THEN unified ELSE service

\* shared_auth.py:207-292
check_token_health(unified, service, required_scopes) ==
    LET token_file == TokenFileOf(unified, service)
        creds == from_authorized_user_file(token_file, OrEmpty(required_scopes))
        is_unified == Exists(unified)
        required_truthy == ~ IsNone(required_scopes) /\ Val(required_scopes) # {}
    IN  IF ~ Exists(token_file) THEN "missing"
        ELSE IF IsNone(creds) THEN "error"
        ELSE IF /\ required_truthy
                /\ IF is_unified
                   THEN ~ (Val(required_scopes) \subseteq Val(creds).scopes)
                   ELSE Val(creds).scopes # Val(required_scopes)
             THEN "scope_mismatch"
        ELSE IF Val(creds).expired
             THEN IF Val(creds).refresh_token THEN "expired_refreshable"
                  ELSE "expired"
        ELSE "valid"

MaxTokenSteps == 2

TokIdle ==
    /\ tokUnified = None
    /\ tokService = None
    /\ tokLast = [op |-> "none"]
    /\ tokSteps = 0

\* The file the call reads is rewritten; the other file is left alone
WriteTokenFile(content) ==
    IF Exists(tokUnified)
    THEN tokUnified' = content /\ UNCHANGED tokService
    ELSE tokService' = content /\ UNCHANGED tokUnified

CheckTokenHealth(required_scopes) ==
    /\ tokSteps < MaxTokenSteps
    /\ tokSteps' = tokSteps + 1
    /\ tokLast' = [op |-> "check_token_health", required |-> required_scopes,
                   status |-> check_token_health(tokUnified, tokService,
                                                 required_scopes)]
    /\ UNCHANGED <<tokUnified, tokService>>
    /\ UNCHANGED frameTok

\* shared_auth.py:295-332 -- refresh_token; `refresh_ok` is whether the token
\* endpoint grants the refresh
RefreshToken(required_scopes, refresh_ok) ==
    /\ tokSteps < MaxTokenSteps
    /\ tokSteps' = tokSteps + 1
    /\ LET token_file == TokenFileOf(tokUnified, tokService)
           creds == IF Exists(token_file)
                    THEN from_authorized_user_file(token_file,
                                                   OrEmpty(required_scopes))
                    ELSE None
       IN  IF /\ ~ IsNone(creds)
              /\ Val(creds).expired /\ Val(creds).refresh_token
              /\ refresh_ok
           THEN /\ WriteTokenFile(to_json(Refreshed(Val(creds))))
                /\ tokLast' = [op |-> "refresh_token",
                               creds |-> Some(Refreshed(Val(creds)))]
           ELSE /\ tokLast' = [op |-> "refresh_token", creds |-> None]
                /\ UNCHANGED <<tokUnified, tokService>>
    /\ UNCHANGED frameTok

\* auth.py:23-79 -- what get_credentials returns and what it leaves in the
\* token file it read.  `inline_ok`: creds.refresh at auth.py:64 succeeds;
\* `shared_ok`: the refresh inside refresh_token (auth.py:72) succeeds.
get_credentials(unified, service, inline_ok, shared_ok) ==
    LET token_file == TokenFileOf(unified, service)
        health == check_token_health(unified, service, Some(SCOPES))
        creds == IF Exists(token_file)
                 THEN from_authorized_user_file(token_file, Some(SCOPES))
                 ELSE None
        keep == token_file
    IN  IF health = "scope_mismatch" THEN [creds |-> None, file |-> keep]
        ELSE IF IsNone(creds) THEN [creds |-> None, file |-> keep]
        ELSE IF Valid(Val(creds)) THEN [creds |-> creds, file |-> keep]
        ELSE IF Val(creds).expired /\ Val(creds).refresh_token
             THEN IF inline_ok \/ shared_ok
                  THEN [creds |-> Some(Refreshed(Val(creds))),
                        file |-> to_json(Refreshed(Val(creds)))]
                  ELSE [creds |-> None, file |-> keep]
        ELSE [creds |-> creds, file |-> keep]

GetCredentials(inline_ok, shared_ok) ==
    /\ tokSteps < MaxTokenSteps
    /\ tokSteps' = tokSteps + 1
    /\ LET r == get_credentials(tokUnified, tokService, inline_ok, shared_ok)
       IN  /\ tokLast' = [op |-> "get_credentials", creds |-> r.creds]
           /\ IF Exists(TokenFileOf(tokUnified, tokService))
              THEN WriteTokenFile(r.file)
              ELSE UNCHANGED <<tokUnified, tokService>>
    /\ UNCHANGED frameTok

\* api.py:16-28 with auth.py:188-196 -- CalendarAPI(account): check_auth, then
\* raise "Not authenticated..." when it returned nothing
ConstructCalendarAPI(inline_ok, shared_ok) ==
    /\ tokSteps < MaxTokenSteps
    /\ tokSteps' = tokSteps + 1
    /\ LET r == get_credentials(tokUnified, tokService, inline_ok, shared_ok)
       IN  /\ tokLast' = [op |-> "CalendarAPI", creds |-> r.creds,
                          raised |-> IF IsNone(r.creds)
                                     THEN Some("Not authenticated. Run 'google-calendar init' first.")
                                     ELSE None]
           /\ IF Exists(TokenFileOf(tokUnified, tokService))
              THEN WriteTokenFile(r.file)
              ELSE UNCHANGED <<tokUnified, tokService>>
    /\ UNCHANGED frameTok

(***************************************************************************)
(* config.py: the preference store.  A Python value is a record of its     *)
(* type and its repr; a JSON value is a record of its kind and its text.   *)
(***************************************************************************)
PyNone == [type |-> "NoneType", value |-> "None"]
PyInt(text) == [type |-> "int", value |-> text]
PyBool(b) == [type |-> "bool", value |-> IF b THEN "True" ELSE "False"]

\* json.dump of one value
JsonDump(v) ==
    CASE v.type = "str" -> [json |-> "string", text |-> v.value]
      [] v.type = "int" -> [json |-> "number", text |-> v.value]
      [] v.type = "bool" -> [json |-> "literal",
                             text |-> IF v.value = "True" THEN "true" ELSE "false"]
      [] v.type = "NoneType" -> [json |-> "literal", text |-> "null"]

\* json.load of one value
JsonLoad(j) ==
    CASE j.json = "string" -> PyStr(j.text)
      [] j.json = "number" -> PyInt(j.text)
      [] j.json = "literal" /\ j.text = "null" -> PyNone
      [] j.json = "literal" -> PyBool(j.text = "true")

JsonDumpDict(prefs) == [k \in DOMAIN prefs |-> JsonDump(prefs[k])]
JsonLoadDict(obj) == [k \in DOMAIN obj |-> JsonLoad(obj[k])]

\* config.py:58-70 -- get_default_preferences
get_default_preferences ==
    [k \in {"default_output_format", "default_max_results", "timezone",
            "date_format", "week_start", "default_calendar", "user_email",
            "verbose"} |->
        CASE k = "default_output_format" -> PyStr("table")
          [] k = "default_max_results" -> PyInt("10")
          [] k = "timezone" -> PyStr("UTC")
          [] k = "date_format" -> PyStr("MDY")
          [] k = "week_start" -> PyStr("0")
          [] k = "default_calendar" -> PyStr("primary")
          [] k = "user_email" -> PyNone
          [] k = "verbose" -> PyBool(FALSE)]

\* A local JSON file: absent, text that json.load rejects, or a JSON object
AbsentFile == [state |-> "absent"]
CorruptFile == [state |-> "corrupt"]
JsonFile(obj) == [state |-> "json", object |-> obj]

\* config.py:12-32 -- ensure_preferences_file
ensure_preferences_file(file) ==
    IF file.state = "absent" THEN JsonFile(JsonDumpDict(get_default_preferences))
    ELSE file

\* config.py:35-44 -- load_preferences, on the file as ensure left it
load_preferences(file) ==
    IF file.state = "json" THEN JsonLoadDict(file.object)
    ELSE get_default_preferences

\* dict.get(key, default)
DictGetOrNone(prefs, key, default) ==
    IF key \in DOMAIN prefs THEN prefs[key] ELSE PyNone
DictGet(prefs, key, default) ==
    IF key \in DOMAIN prefs THEN prefs[key] ELSE default

\* config.py:73-76
get_preference(file, key, default) ==
    DictGet(load_preferences(ensure_preferences_file(file)), key, default)

\* config.py:79-83 -- the file set_preference leaves
set_preference(file, key, value) ==
    LET prefs == load_preferences(ensure_preferences_file(file))
    IN  JsonFile(JsonDumpDict(Put(prefs, key, value)))

MaxPrefCalls == 3

PrefKeys == {"timezone", "user_email", "nickname"}
PrefValues == {PyStr("Asia/Tokyo"), PyStr(""), PyNone, PyInt("7")}

PrefFiles ==
    {AbsentFile, CorruptFile,
     JsonFile(JsonDumpDict(get_default_preferences)),
     JsonFile(JsonDumpDict([k \in {"timezone"} |-> PyStr("Europe/Paris")]))}

PrefIdle ==
    /\ prefFile = AbsentFile
    /\ prefLast = [op |-> "none"]
    /\ prefCalls = 0


GetPreference(key, default) ==
    /\ prefCalls < MaxPrefCalls
    /\ prefCalls' = prefCalls + 1
    /\ prefFile' = ensure_preferences_file(prefFile)
    /\ prefLast' = [op |-> "get_preference", key |-> key, default |-> default,
                    before |-> prefFile, raised |-> FALSE,
                    result |-> get_preference(prefFile, key, default)]
    /\ UNCHANGED <<framePref, varsContacts, varsTpl>>

SetPreference(key, value) ==
    /\ prefCalls < MaxPrefCalls
    /\ prefCalls' = prefCalls + 1
    /\ prefFile' = set_preference(prefFile, key, value)
    /\ prefLast' = [op |-> "set_preference", key |-> key, value |-> value,
                    before |-> prefFile, raised |-> FALSE]
    /\ UNCHANGED <<framePref, varsContacts, varsTpl>>

(***************************************************************************)
(* contacts.py: the local contact store.  Emails, names and group names    *)
(* are sequences of characters; the "contacts" dict is the sequence of its *)
(* entries in insertion order, each carrying its key.                      *)
(***************************************************************************)
IsSpace(c) == c \in {" ", "\t", "\n"}

RECURSIVE LStrip(_)
LStrip(s) == IF Len(s) > 0 /\ IsSpace(s[1]) THEN LStrip(Tail(s)) ELSE s

RECURSIVE RStrip(_)
RStrip(s) ==
    IF Len(s) > 0 /\ IsSpace(s[Len(s)]) THEN RStrip(SubSeq(s, 1, Len(s) - 1))
    ELSE s

\* str.strip()
Strip(s) == LStrip(RStrip(s))

\* x in list
InList(list, x) == \E i \in 1..Len(list) : list[i] = x

\* the index of the first TRUE of `hits`, 0 when there is none: the first
\* element of a list that passes a test
LastIndex(hits) ==
    IF \E i \in 1..Len(hits) : hits[i]
    THEN CHOOSE i \in 1..Len(hits) :
             hits[i] /\ \A j \in (i + 1)..Len(hits) : ~ hits[j]
    ELSE 0
FirstIndex(hits) ==
    IF \E i \in 1..Len(hits) : hits[i]
    THEN CHOOSE i \in 1..Len(hits) :
             hits[i] /\ \A j \in 1..(i - 1) : ~ hits[j]
    ELSE 0

\* list.remove(x) for an x the list holds: the first occurrence goes
ListRemove(list, x) ==
    LET i == FirstIndex([k \in 1..Len(list) |-> list[k] = x])
    IN  SubSeq(list, 1, i - 1) \o SubSeq(list, i + 1, Len(list))

\* contacts.py:67-69 -- for group in groups: append it when it is missing
RECURSIVE EnsureGroups(_, _)
EnsureGroups(known, groups) ==
    IF groups = <<>> THEN known
    ELSE EnsureGroups(IF InList(known, Head(groups)) THEN known
                      ELSE Append(known, Head(groups)),
                      Tail(groups))

HasKey(contacts, key) == \E i \in 1..Len(contacts) : contacts[i].key = key

\* data["contacts"][key]
Lookup(contacts, key) ==
    contacts[FirstIndex([i \in 1..Len(contacts) |-> contacts[i].key = key])]

\* data["contacts"][key] = contact: a known key keeps its position
DictSet(contacts, key, contact) ==
    IF HasKey(contacts, key)
    THEN [i \in 1..Len(contacts) |->
             IF contacts[i].key = key THEN contact ELSE contacts[i]]
    ELSE Append(contacts, contact)

\* del data["contacts"][key]
DictDel(contacts, key) == SelectSeq(contacts, LAMBDA c : c.key # key)

EmptyContacts == [contacts |-> <<>>, groups |-> <<>>]

\* contacts.py:13-26
ensure_contacts_file(file) ==
    IF file.state = "absent" THEN JsonFile(EmptyContacts) ELSE file

\* contacts.py:29-37 -- on the file as ensure_contacts_file left it
load_contacts(file) ==
    IF file.state = "json" THEN file.object ELSE EmptyContacts

\* contacts.py:49-72 -- the data add_contact saves
add_contact(data, email, name, description, groups) ==
    LET key == Strip(Lower(email))
        contact == [key |-> key, name |-> Strip(name), email |-> key,
                    description |-> Strip(description), groups |-> groups]
    IN  [contacts |-> DictSet(data.contacts, key, contact),
         groups |-> EnsureGroups(data.groups, groups)]

\* contacts.py:123-146 -- the data update_contact saves for a known email
update_contact(data, email, name, description, groups) ==
    LET key == Strip(Lower(email))
        c0 == Lookup(data.contacts, key)
        c1 == IF IsNone(name) THEN c0 ELSE [c0 EXCEPT !.name = Strip(Val(name))]
        c2 == IF IsNone(description) THEN c1
              ELSE [c1 EXCEPT !.description = Strip(Val(description))]
        c3 == IF IsNone(groups) THEN c2 ELSE [c2 EXCEPT !.groups = Val(groups)]
    IN  [contacts |-> DictSet(data.contacts, key, c3),
         groups |-> IF IsNone(groups) THEN data.groups
                    ELSE EnsureGroups(data.groups, Val(groups))]

\* contacts.py:169-174 -- the data remove_group saves for a known group
remove_group(data, name) ==
    [contacts |-> [i \in 1..Len(data.contacts) |->
                      IF InList(data.contacts[i].groups, name)
                      THEN [data.contacts[i] EXCEPT
                                !.groups = ListRemove(@, name)]
                      ELSE data.contacts[i]],
     groups |-> ListRemove(data.groups, name)]

\* contacts.py:191-213 -- one item of resolve_contacts
ResolveItem(contacts, item) ==
    LET item_lower == Strip(Lower(item))
        named == FirstIndex([i \in 1..Len(contacts) |->
                     \/ Lower(contacts[i].name) = item_lower
                     \/ Contains(Lower(contacts[i].name), item_lower)])
    IN  IF Contains(item_lower, <<"@">>)
        THEN IF HasKey(contacts, item_lower)
             THEN Lookup(contacts, item_lower).email
             ELSE item
        ELSE IF named # 0 THEN contacts[named].email ELSE item

\* contacts.py:186-215
resolve_contacts(data, names_or_emails) ==
    [i \in 1..Len(names_or_emails) |->
        ResolveItem(data.contacts, names_or_emails[i])]

MaxContactCalls == 3

E_Bob == <<"b","o","b","@","x",".","i","o">>
E_BobTyped == <<" ","B","o","b","@","X",".","i","o">>
E_Al == <<"a","l","@","x",".","i","o">>
E_Eve == <<"e","v","e","@","x",".","i","o">>
N_Bob == <<"B","o","b"," ","L","e","e">>
N_Al == <<" ","A","l"," ">>
G_Team == <<"t","e","a","m">>
G_TeamTyped == <<" ","t","e","a","m">>
G_Kin == <<"k","i","n">>

ContactEmails == {E_BobTyped, E_Al}
ContactNames == {N_Bob, N_Al}
GroupLists == {<<>>, <<G_Team, G_Team>>, <<G_Kin, G_Team>>}
GroupNames == {G_TeamTyped, G_Kin}

\* The lists handed to resolve_contacts
ResolveInputs ==
    { <<>>,
      <<<<"b","o","b">>>>,
      <<<<"L","E","E"," ">>>>,
      <<E_BobTyped, <<"z","e","d">>>>,
      <<E_Eve, <<"a","l">>, <<>>>>,
      <<<<"l">>, E_Al>> }

ContactFiles ==
    {AbsentFile, CorruptFile,
     JsonFile(add_contact(EmptyContacts, E_Bob, N_Bob, <<>>, <<G_Team>>))}

ContactsIdle ==
    /\ ctFile = AbsentFile
    /\ ctLast = [op |-> "none"]
    /\ ctCalls = 0


frameContacts == <<framePref, varsPref, varsTpl>>

ContactsCall ==
    /\ ctCalls < MaxContactCalls
    /\ ctCalls' = ctCalls + 1
    /\ UNCHANGED frameContacts

AddContact(email, name, groups) ==
    /\ ContactsCall
    /\ LET data == load_contacts(ensure_contacts_file(ctFile))
       IN  /\ ctFile' = JsonFile(add_contact(data, email, name, <<>>, groups))
           /\ ctLast' = [op |-> "add_contact", before |-> data, ret |-> TRUE]

UpdateContact(email, name, groups) ==
    /\ ContactsCall
    /\ LET data == load_contacts(ensure_contacts_file(ctFile))
       IN  IF HasKey(data.contacts, Strip(Lower(email)))
           THEN /\ ctFile' = JsonFile(update_contact(data, email, name, None, groups))
                /\ ctLast' = [op |-> "update_contact", before |-> data, ret |-> TRUE]
           ELSE /\ ctFile' = ensure_contacts_file(ctFile)
                /\ ctLast' = [op |-> "update_contact", before |-> data, ret |-> FALSE]

\* contacts.py:75-85
RemoveContact(email) ==
    /\ ContactsCall
    /\ LET data == load_contacts(ensure_contacts_file(ctFile))
           key == Strip(Lower(email))
       IN  IF HasKey(data.contacts, key)
           THEN /\ ctFile' = JsonFile([data EXCEPT !.contacts = DictDel(@, key)])
                /\ ctLast' = [op |-> "remove_contact", before |-> data, ret |-> TRUE]
           ELSE /\ ctFile' = ensure_contacts_file(ctFile)
                /\ ctLast' = [op |-> "remove_contact", before |-> data, ret |-> FALSE]

\* contacts.py:149-158
AddGroup(name) ==
    /\ ContactsCall
    /\ LET data == load_contacts(ensure_contacts_file(ctFile))
           stripped == Strip(name)
       IN  IF ~ InList(data.groups, stripped)
           THEN /\ ctFile' = JsonFile([data EXCEPT !.groups = Append(@, stripped)])
                /\ ctLast' = [op |-> "add_group", before |-> data, ret |-> TRUE]
           ELSE /\ ctFile' = ensure_contacts_file(ctFile)
                /\ ctLast' = [op |-> "add_group", before |-> data, ret |-> FALSE]

\* contacts.py:161-177
RemoveGroup(name) ==
    /\ ContactsCall
    /\ LET data == load_contacts(ensure_contacts_file(ctFile))
           stripped == Strip(name)
       IN  IF InList(data.groups, stripped)
           THEN /\ ctFile' = JsonFile(remove_group(data, stripped))
                /\ ctLast' = [op |-> "remove_group", before |-> data, ret |-> TRUE,
                              name |-> stripped]
           ELSE /\ ctFile' = ensure_contacts_file(ctFile)
                /\ ctLast' = [op |-> "remove_group", before |-> data, ret |-> FALSE,
                              name |-> stripped]

ResolveContacts(names_or_emails) ==
    /\ ContactsCall
    /\ LET data == load_contacts(ensure_contacts_file(ctFile))
       IN  /\ ctFile' = ensure_contacts_file(ctFile)
           /\ ctLast' = [op |-> "resolve_contacts", before |-> data,
                         input |-> names_or_emails, raised |-> FALSE,
                         ret |-> resolve_contacts(data, names_or_emails)]

(***************************************************************************)
(* shared_auth.py, cli.py: which account a command acts as.  The shared    *)
(* config file holds the default account, the per-service default, the     *)
(* known accounts and the alias map; a key the file lacks is None here.    *)
(* The process environment is the GOOGLE_CALENDAR_ACCOUNT variable and the *)
(* .google-account profile file found from the working directory.          *)
(***************************************************************************)
MaxAccountCalls == 3

NoAliases == [alias \in {} |-> ""]

EmptyConfig ==
    [default_account |-> None, calendar_default_account |-> None,
     accounts |-> <<>>, aliases |-> NoAliases]

\* shared_auth.py:37-46 -- get_shared_config: {} for a missing or unreadable file
get_shared_config(file) ==
    IF file.state = "json" THEN file.object ELSE EmptyConfig

\* shared_auth.py:57-93 -- get_default_account("calendar")
get_default_account(process, file) ==
    IF TruthyStr(process.env) THEN process.env
    ELSE IF TruthyStr(process.profile) THEN process.profile
    ELSE LET config == get_shared_config(file)
         IN  IF ~ IsNone(config.calendar_default_account)
             THEN config.calendar_default_account
             ELSE config.default_account

\* shared_auth.py:96-118 -- the file set_default_account(account_name) leaves
set_default_account(file, account_name) ==
    LET config == get_shared_config(file)
    IN  JsonFile([config EXCEPT
            !.default_account = Some(account_name),
            !.accounts = IF InList(@, account_name) THEN @
                         ELSE Append(@, account_name)])

\* set_account_alias of the shared registry: the alias is stored when its
\* target is a known account; the result is whether it was stored
set_account_alias(file, alias, account_email) ==
    LET config == get_shared_config(file)
    IN  IF InList(config.accounts, account_email)
        THEN [ret |-> TRUE,
              file |-> JsonFile([config EXCEPT !.aliases =
                          [a \in (DOMAIN @) \cup {alias} |->
                              IF a = alias THEN account_email ELSE @[a]]])]
        ELSE [ret |-> FALSE, file |-> file]

\* resolve_account of the shared registry: the alias's account, or the input
\* unchanged when it is not an alias
resolve_account(file, account_or_alias) ==
    LET aliases == get_shared_config(file).aliases
    IN  IF account_or_alias \in DOMAIN aliases THEN aliases[account_or_alias]
        ELSE account_or_alias

\* cli.py:75-79 -- _resolve_account_callback on a command's own --account
ResolveAccountCallback(file, value) ==
    IF ~ IsNone(value) THEN Some(resolve_account(file, Val(value))) ELSE value

\* cli.py:22-30 -- cli: what the group stores in ctx.obj["ACCOUNT"]
GroupAccount(process, file, global_flag) ==
    IF ~ IsNone(global_flag) THEN global_flag
    ELSE IF ~ IsNone(process.env) THEN process.env
    ELSE get_default_account(process, file)

\* cli.py:585 and every command alike -- account or ctx.obj.get('ACCOUNT'):
\* the account handed to CalendarAPI
CommandAccount(process, file, global_flag, command_flag) ==
    LET account == ResolveAccountCallback(file, command_flag)
    IN  IF TruthyStr(account) THEN account
        ELSE GroupAccount(process, file, global_flag)

AccountNames == {"a@example.com", "b@example.com"}
AliasNames == {"work"}
AccountFlags == {None, Some("work"), Some("b@example.com")}

WorkConfig ==
    [default_account |-> Some("b@example.com"), calendar_default_account |-> None,
     accounts |-> <<"a@example.com", "b@example.com">>,
     aliases |-> [alias \in {"work"} |-> "a@example.com"]]

AccountFiles ==
    {AbsentFile, CorruptFile, JsonFile(WorkConfig),
     JsonFile([WorkConfig EXCEPT !.calendar_default_account =
                                     Some("a@example.com")])}

Processes ==
    [env : {None, Some("work"), Some("b@example.com")},
     profile : {None, Some("a@example.com")}]

AcctIdle ==
    /\ acctFile = AbsentFile
    /\ acctProcess = [env |-> None, profile |-> None]
    /\ acctLast = [op |-> "none"]
    /\ acctCalls = 0

AccountCall ==
    /\ acctCalls < MaxAccountCalls
    /\ acctCalls' = acctCalls + 1
    /\ UNCHANGED acctProcess
    /\ UNCHANGED <<varsRetry, varsHist, varsSlots, varsCal, varsTok>>
    /\ UNCHANGED <<varsPref, varsContacts, varsTpl, varsStore, varsMore>>

SetDefaultAccount(account_name) ==
    /\ AccountCall
    /\ acctFile' = set_default_account(acctFile, account_name)
    /\ acctLast' = [op |-> "set_default_account", account |-> account_name]

SetAccountAlias(alias, account_email) ==
    /\ AccountCall
    /\ LET r == set_account_alias(acctFile, alias, account_email)
       IN  /\ acctFile' = r.file
           /\ acctLast' = [op |-> "set_account_alias", alias |-> alias,
                           account |-> account_email, ret |-> r.ret]

\* One command run with the global and the command's own --account options
InvokeCommand(global_flag, command_flag) ==
    /\ AccountCall
    /\ UNCHANGED acctFile
    /\ acctLast' = [op |-> "invoke", global_flag |-> global_flag,
                    command_flag |-> command_flag,
                    api_account |-> CommandAccount(acctProcess, acctFile,
                                                   global_flag, command_flag)]

(***************************************************************************)
(* The local stores read with whatever their files hold: history.json,     *)
(* preferences.json, contacts.json and the shared config.json.  A call     *)
(* gives what it returns, or that it raised, and the file it leaves.       *)
(***************************************************************************)
MaxStoreCalls == 2

\* history.py:39-40, 65-66, 76-77 -- json.load(f) on the file as
\* ensure_history_file left it: JSONDecodeError for text that is not JSON,
\* and nothing in the three functions catches it
HistoryLoadRaises(file) == ensure_history_file(file).corrupt

HistoryOps == {"add_operation", "get_recent_operations",
               "get_last_undoable_operation"}

\* history.py:26-86 -- one call of a history function
HistoryOutcome(file, op, n) ==
    IF HistoryLoadRaises(file)
    THEN [raised |-> TRUE, ret |-> None, file |-> ensure_history_file(file)]
    ELSE CASE op = "add_operation" ->
                [raised |-> FALSE, ret |-> None,
                 file |-> add_operation(file, n, "create", [seq |-> n], TRUE,
                                        Some("delete"))]
           [] op = "get_recent_operations" ->
                [raised |-> FALSE, ret |-> get_recent_operations(file, 10),
                 file |-> ensure_history_file(file)]
           [] op = "get_last_undoable_operation" ->
                [raised |-> FALSE, ret |-> get_last_undoable_operation(file),
                 file |-> ensure_history_file(file)]

\* config.py:73-76 -- get_preference: load_preferences catches every error
PreferenceOutcome(file, key, default) ==
    [raised |-> FALSE, ret |-> get_preference(file, key, default),
     file |-> ensure_preferences_file(file)]

\* contacts.py:29-37 -- load_contacts: every error gives the empty store
ContactsOutcome(file) ==
    [raised |-> FALSE, ret |-> load_contacts(ensure_contacts_file(file)),
     file |-> ensure_contacts_file(file)]

\* shared_auth.py:37-46 -- get_shared_config: every error gives {}
ConfigOutcome(file) ==
    [raised |-> FALSE, ret |-> get_shared_config(file), file |-> file]

HistoryFiles ==
    {FileAbsent, FileCorrupt,
     FileWith(<<[timestamp |-> 0, type |-> "create", details |-> [seq |-> 0],
                 undoable |-> TRUE, undo_func |-> Some("delete")]>>)}

StoresIdle ==
    /\ stLast = [op |-> "none"]
    /\ stCalls = 0

StoreCall ==
    /\ stCalls < MaxStoreCalls
    /\ stCalls' = stCalls + 1
    /\ UNCHANGED <<varsRetry, varsSlots, varsCal, varsTok, varsTpl, varsMore>>
    /\ UNCHANGED <<hCount, hPattern, hRet, prefLast, prefCalls, ctLast, ctCalls,
                   acctProcess, acctLast, acctCalls>>

HistoryCall(op) ==
    /\ StoreCall
    /\ LET out == HistoryOutcome(histFile, op, stCalls')
       IN  /\ histFile' = out.file
           /\ stLast' = [store |-> "history", op |-> op,
                         corrupt |-> histFile.corrupt,
                         raised |-> out.raised, ret |-> out.ret]
    /\ UNCHANGED <<prefFile, ctFile, acctFile>>

PreferenceRead(key) ==
    /\ StoreCall
    /\ LET out == PreferenceOutcome(prefFile, key, PyNone)
       IN  /\ prefFile' = out.file
           /\ stLast' = [store |-> "preferences", op |-> "get_preference",
                         key |-> key, corrupt |-> prefFile = CorruptFile,
                         raised |-> out.raised, ret |-> out.ret]
    /\ UNCHANGED <<histFile, ctFile, acctFile>>

ContactsRead ==
    /\ StoreCall
    /\ LET out == ContactsOutcome(ctFile)
       IN  /\ ctFile' = out.file
           /\ stLast' = [store |-> "contacts", op |-> "load_contacts",
                         corrupt |-> ctFile = CorruptFile,
                         raised |-> out.raised, ret |-> out.ret]
    /\ UNCHANGED <<histFile, prefFile, acctFile>>

ConfigRead ==
    /\ StoreCall
    /\ LET out == ConfigOutcome(acctFile)
       IN  /\ acctFile' = out.file
           /\ stLast' = [store |-> "config", op |-> "get_shared_config",
                         corrupt |-> acctFile = CorruptFile,
                         raised |-> out.raised, ret |-> out.ret]
    /\ UNCHANGED <<histFile, prefFile, ctFile>>

(***************************************************************************)
(* templates.py: event templates.  A template is a JSON object; a field    *)
(* value is a string (sequence of characters), a list of strings, or some  *)
(* other JSON value.                                                       *)
(***************************************************************************)
StrField(chars) == [kind |-> "str", chars |-> chars]
ListField(items) == [kind |-> "list", items |-> items]
OtherField(json) == [kind |-> "other", json |-> json]

\* A keyword argument of render_template: its name and str(value)
Kw(name, str) == [name |-> name, str |-> str]

\* str(None)
StrOfNone == <<"N","o","n","e">>

\* str.replace(old, new) for a non-empty `old`
RECURSIVE Replace(_, _, _)
Replace(s, old, new) ==
    IF Len(s) < Len(old) THEN s
    ELSE IF SubSeq(s, 1, Len(old)) = old
         THEN new \o Replace(SubSeq(s, Len(old) + 1, Len(s)), old, new)
         ELSE <<s[1]>> \o Replace(Tail(s), old, new)

\* templates.py:96 -- f"{{{{{var_name}}}}}}}": two opening braces, the name,
\* and three closing braces
PlaceholderOf(var_name) == <<"{","{">> \o var_name \o <<"}","}","}">>

\* templates.py:95-96 -- the replacements applied in keyword order
RECURSIVE ReplaceEach(_, _)
ReplaceEach(value, kwargs) ==
    IF kwargs = <<>> THEN value
    ELSE ReplaceEach(Replace(value, PlaceholderOf(Head(kwargs).name),
                             Head(kwargs).str),
                     Tail(kwargs))

\* templates.py:99-100 -- [... for v in value for k, vv in kwargs.items()]
RECURSIVE RenderList(_, _)
RenderList(items, kwargs) ==
    IF items = <<>> THEN <<>>
    ELSE [i \in 1..Len(kwargs) |->
             Replace(Head(items), PlaceholderOf(kwargs[i].name), kwargs[i].str)]
         \o RenderList(Tail(items), kwargs)

\* templates.py:34-46 -- get_template: None for a missing or unreadable file
get_template(dir, name) ==
    IF dir[name].state = "json" THEN Some(dir[name].object) ELSE None

\* templates.py:49-69 -- the template create_template writes
create_template(title, description, location, attendees) ==
    [k \in {"title", "description", "location", "duration_minutes",
            "attendees", "reminders"} |->
        CASE k = "title" -> StrField(IF IsNone(title) THEN <<>> ELSE Val(title))
          [] k = "description" ->
                 StrField(IF IsNone(description) THEN <<>> ELSE Val(description))
          [] k = "location" ->
                 StrField(IF IsNone(location) THEN <<>> ELSE Val(location))
          [] k = "duration_minutes" -> OtherField("60")
          [] k = "attendees" ->
                 ListField(IF IsNone(attendees) THEN <<>> ELSE Val(attendees))
          [] k = "reminders" -> OtherField("{}")]

\* templates.py:85-105 -- render_template: None when it raises ValueError
render_template(dir, name, kwargs) ==
    LET template == get_template(dir, name)
    IN  IF IsNone(template) THEN None
        ELSE Some([key \in DOMAIN Val(template) |->
                 LET value == Val(template)[key]
                 IN  CASE value.kind = "str" ->
                              StrField(ReplaceEach(value.chars, kwargs))
                       [] value.kind = "list" ->
                              ListField(RenderList(value.items, kwargs))
                       [] OTHER -> value])

MaxTemplateCalls == 3

TemplateNames == {"sync", "retro"}

C_Title == <<"t","i","t","l","e">>
C_Start == <<"s","t","a","r","t">>
C_End == <<"e","n","d">>
C_Lunch == <<"L","u","n","c","h">>
C_Standup == <<"S","t","a","n","d","u","p">>
C_TenOClock == <<"2","0","2","4","-","0","3","-","0","5"," ","1","0",":","0","0">>
C_Whenever == <<"w","h","e","n","e","v","e","r">>
C_TitleReview == <<"{","{","t","i","t","l","e","}","}"," ","r","e","v","i","e","w">>
C_WeeklySync == <<"W","e","e","k","l","y"," ","s","y","n","c">>
C_AtStart == <<"S","t","a","r","t","s"," ","{","{","s","t","a","r","t","}","}",","," ","{","{","t","i","t","l","e","}","}","}">>
C_RoomFour == <<"R","o","o","m"," ","4">>
C_Notes == <<"n","o","t","e","s">>
C_Cafe == <<"C","a","f","e">>

TemplateTitles == {None, Some(C_TitleReview), Some(C_WeeklySync)}
TemplateDescriptions == {None, Some(C_AtStart)}
TemplateLocations == {None, Some(C_RoomFour)}
TemplateAttendees == {None, Some(<<E_Al, E_Eve>>)}

\* The keyword arguments handed to render_template
RenderKwargs ==
    { <<>>,
      <<Kw(C_Title, C_Lunch)>>,
      <<Kw(C_Title, C_Lunch), Kw(C_Start, C_TenOClock), Kw(C_End, StrOfNone)>>,
      <<Kw(C_Title, C_Standup), Kw(C_Start, StrOfNone), Kw(C_End, StrOfNone)>> }

NoTemplates == [name \in TemplateNames |-> AbsentFile]

TplIdle ==
    /\ tplDir = NoTemplates
    /\ tplLast = [op |-> "none"]
    /\ tplCalls = 0

\* the components modelled further down start idle as well
MergeIdle == mgIn = <<>> /\ mgOut = <<>>
NoneYet == [outer |-> 0, inner |-> 0]
NestIdle ==
    /\ nsOp = "none" /\ nsPc = "idle" /\ nsValue = <<>>
    /\ nsAttempt = NoneYet /\ nsCalls = NoneYet
RaceIdle ==
    /\ rcStore = "none"
    /\ rcPc = <<"start", "start">>
    /\ rcLocal = <<None, None>>
NoDay == [current_date |-> 0, day_end |-> 0, slot_start |-> 0, iterations |-> 0]
LoopIdle ==
    /\ slIn = <<>> /\ slPc = "idle" /\ slDay = NoDay
    /\ slSlots = <<>> /\ slOut = <<>>
InsIdle == insIn = <<>> /\ insPc = "idle" /\ insAttempt = 0 /\ insValue = <<>>
MoreIdle == MergeIdle /\ NestIdle /\ RaceIdle /\ LoopIdle /\ InsIdle
LocalIdle == PrefIdle /\ ContactsIdle /\ TplIdle /\ AcctIdle /\ StoresIdle /\ MoreIdle

frameTpl == <<framePref, varsPref, varsContacts>>

TemplateCall ==
    /\ tplCalls < MaxTemplateCalls
    /\ tplCalls' = tplCalls + 1
    /\ UNCHANGED frameTpl

CreateTemplate(name, title, description, location, attendees) ==
    /\ TemplateCall
    /\ tplDir' = [tplDir EXCEPT ![name] =
                     JsonFile(create_template(title, description, location,
                                              attendees))]
    /\ tplLast' = [op |-> "create_template", name |-> name]

\* templates.py:72-82
DeleteTemplate(name) ==
    /\ TemplateCall
    /\ tplDir' = [tplDir EXCEPT ![name] = AbsentFile]
    /\ tplLast' = [op |-> "delete_template", name |-> name,
                   ret |-> tplDir[name].state # "absent"]

RenderTemplate(name, kwargs) ==
    /\ TemplateCall
    /\ tplLast' = [op |-> "render_template", name |-> name, kwargs |-> kwargs,
                   ret |-> render_template(tplDir, name, kwargs)]
    /\ UNCHANGED tplDir

(***************************************************************************)
(* api.py: the busy-interval merge step of find_available_slots on its own *)
(***************************************************************************)
MaxBusy == 2
MaxInstant == 4

\* half-hour instants from 09:00 on day 0
Instant(k) == At(0, 9, 0) + 30 * k
BusyPeriods ==
    {<<Instant(ij[1]), Instant(ij[2])>> :
        ij \in {p \in (0..MaxInstant) \X (0..MaxInstant) : p[1] < p[2]}}

RECURSIVE BusyLists(_)
BusyLists(n) ==
    IF n = 0 THEN {<<>>}
    ELSE BusyLists(n - 1)
         \cup {Append(l, p) : l \in BusyLists(n - 1), p \in BusyPeriods}

\* api.py:538-563 -- the "calendars" part of a free/busy response: a first
\* attendee that may carry errors, a second one that does not
MergeResponses ==
    {<<Cal("a@x", e, la), Cal("b@x", FALSE, lb)>> :
        e \in BOOLEAN, la \in BusyLists(MaxBusy), lb \in BusyLists(1)}
    \cup {<<Cal("a@x", FALSE, <<<<At(0, 13, 0), At(0, 14, 0)>>,
                               <<At(0, 9, 0), At(0, 10, 0)>>>>),
            Cal("b@x", FALSE, <<<<At(0, 9, 30), At(0, 11, 0)>>>>)>>}

\* api.py:538-592 -- collect, sort, merge
MergeStep(calendars) == MergeBusy(SortByStart(CollectBusy(calendars)))

Merge ==
    /\ mgOut = None
    /\ mgOut' = Some(MergeStep(mgIn))
    /\ UNCHANGED mgIn
    /\ UNCHANGED frameMergeOnly

(***************************************************************************)
(* api.py, people.py: a retry-wrapped operation that calls another         *)
(* retry-wrapped operation.  update_event (api.py:243) calls get_event     *)
(* (api.py:99) and then events().update; search_contacts (people.py:85)    *)
(* calls list_contacts (people.py:27).  Each of the four is decorated with *)
(* @with_retry(), so two wrapper loops are active at once.                 *)
(***************************************************************************)
NestedOps == {"update_event", "search_contacts"}

InnerOp(op) == IF op = "update_event" THEN "get_event" ELSE "list_contacts"

\* str(ConnectionResetError(104, "Connection reset by peer")), raised by the
\* transport under .execute()
ConnectionReset ==
    PlainError(<<"[","E","r","r","n","o"," ","1","0","4","]"," ",
                 "C","o","n","n","e","c","t","i","o","n"," ","r","e","s","e","t",
                 " ","b","y"," ","p","e","e","r">>)

\* How one remote call can fail
RemoteFailures ==
    {RemoteHttpError(404), RemoteHttpError(503), RemoteHttpError(504),
     ConnectionReset}

\* api.py:115-116, people.py:81-82, api.py:370-371 -- `except HttpError as
\* error: raise Exception(f"Failed to ...: {error}")`; any other exception
\* leaves the operation as it is
RaisedBy(op, error) ==
    IF error.http THEN PlainError(WrappedApiError(op, error).text) ELSE error

\* people.py:113-114 -- except Exception as error:
\*     raise Exception(f"Failed to search contacts: {error}")
FailedToSearchContacts ==
    <<"F","a","i","l","e","d"," ","t","o"," ","s","e","a","r","c","h"," ",
      "c","o","n","t","a","c","t","s",":"," ">>

\* What the outer wrapper catches when the inner wrapper raised `error`:
\* update_event catches HttpError only (api.py:370), and the inner wrapper
\* never raises one; search_contacts re-wraps every exception
ThroughOuterBody(op, error) ==
    IF op = "search_contacts"
    THEN PlainError(FailedToSearchContacts \o error.text)
    ELSE error

\* retry.py:46-63 -- the wrapper goes round again after attempt `attempt`
\* raised `error`
WrapperRetries(attempt, error) ==
    /\ ~ IsLastAttempt(attempt, MAX_RETRIES)
    /\ is_retryable_error(error)

\* The outer operation is invoked once
NestedCall(op) ==
    /\ nsPc = "idle"
    /\ nsOp' = op
    /\ nsPc' = "inner"
    /\ nsAttempt' = NoneYet
    /\ nsCalls' = NoneYet
    /\ nsValue' = None
    /\ UNCHANGED frameNestOnly

\* The outer wrapper has caught `error` from its attempt
OuterCaught(error) ==
    IF WrapperRetries(nsAttempt.outer, error)
    THEN /\ nsAttempt' = [outer |-> nsAttempt.outer + 1, inner |-> 0]
         /\ nsPc' = "inner"
         /\ nsValue' = None
    ELSE /\ nsAttempt' = nsAttempt
         /\ nsPc' = "raised"
         /\ nsValue' = Some(error)

\* One remote call of the inner operation (events().get, connections().list)
\* under the inner wrapper, which is itself inside an attempt of the outer one
InnerRemoteCall(outcome) ==
    /\ nsPc = "inner"
    /\ nsCalls' = [nsCalls EXCEPT !.inner = @ + 1]
    /\ IF IsNone(outcome)
       THEN /\ nsPc' = IF nsOp = "update_event" THEN "outer" ELSE "returned"
            /\ UNCHANGED <<nsAttempt, nsValue>>
       ELSE LET error == RaisedBy(InnerOp(nsOp), Val(outcome))
            IN  IF WrapperRetries(nsAttempt.inner, error)
                THEN /\ nsAttempt' = [nsAttempt EXCEPT !.inner = @ + 1]
                     /\ UNCHANGED <<nsPc, nsValue>>
                ELSE OuterCaught(ThroughOuterBody(nsOp, error))
    /\ UNCHANGED nsOp
    /\ UNCHANGED frameNestOnly

\* api.py:363-368 -- update_event's own remote call, events().update
OuterRemoteCall(outcome) ==
    /\ nsPc = "outer"
    /\ nsCalls' = [nsCalls EXCEPT !.outer = @ + 1]
    /\ IF IsNone(outcome)
       THEN /\ nsPc' = "returned"
            /\ UNCHANGED <<nsAttempt, nsValue>>
       ELSE OuterCaught(RaisedBy(nsOp, Val(outcome)))
    /\ UNCHANGED nsOp
    /\ UNCHANGED frameNestOnly

(***************************************************************************)
(* api.py: add_attendees                                                   *)
(***************************************************************************)
MaxEmails == 3

\* event.get("attendees", [])
AttendeesOf(event) == IF Has(event, "attendees") THEN event["attendees"] ELSE <<>>

\* api.py:853 -- {att.get("email") for att in event.get("attendees", [])}
ExistingAttendees(event) ==
    {AttendeesOf(event)[i].email : i \in 1..Len(AttendeesOf(event))}

\* api.py:855-858 -- the loop over attendee_emails; existing_attendees is
\* not changed by the loop
RECURSIVE NewAttendees(_, _)
NewAttendees(attendee_emails, existing_attendees) ==
    IF attendee_emails = <<>> THEN <<>>
    ELSE (IF Head(attendee_emails) \notin existing_attendees
          THEN <<[email |-> Head(attendee_emails)]>> ELSE <<>>)
         \o NewAttendees(Tail(attendee_emails), existing_attendees)

\* api.py:851-875 -- one add_attendees call: get_event, and events().update
\* when there is something to add; a missing event makes get_event raise
ApiAddAttendees(event_id, attendee_emails) ==
    /\ apiLast.op = "none"
    /\ IF event_id \in DOMAIN events
       THEN LET event == events[event_id]
                new_attendees ==
                    NewAttendees(attendee_emails, ExistingAttendees(event))
                body == Put(event, "attendees",
                            AttendeesOf(event) \o new_attendees)
            IN  IF new_attendees = <<>>
                THEN /\ apiLast' = [op |-> "add_attendees", raised |-> FALSE,
                                    event_id |-> event_id,
                                    attendee_emails |-> attendee_emails,
                                    fetched |-> event, updated |-> FALSE,
                                    ret |-> event]
                     /\ UNCHANGED events
                ELSE /\ apiLast' = [op |-> "add_attendees", raised |-> FALSE,
                                    event_id |-> event_id,
                                    attendee_emails |-> attendee_emails,
                                    fetched |-> event, updated |-> TRUE,
                                    ret |-> body]
                     /\ events' = [events EXCEPT ![event_id] = body]
       ELSE /\ apiLast' = [op |-> "add_attendees", raised |-> TRUE,
                           event_id |-> event_id,
                           attendee_emails |-> attendee_emails]
            /\ UNCHANGED events
    /\ UNCHANGED <<nextId, secondary, cliLast, cliCount>>
    /\ UNCHANGED varsHist
    /\ UNCHANGED frameCal

AttendeeEmails == {"a@x", "c@x", "d@x"}

RECURSIVE EmailLists(_)
EmailLists(n) ==
    IF n = 0 THEN {<<>>}
    ELSE EmailLists(n - 1)
         \cup {Append(l, e) : l \in EmailLists(n - 1), e \in AttendeeEmails}

(***************************************************************************)
(* history.py, config.py: two processes updating the same file.  Neither   *)
(* file is locked.  A process runs ensure (create the file when missing),  *)
(* json.load, open(file, "w") -- which empties the file -- and json.dump   *)
(* as separate steps that interleave with the other process's steps.       *)
(***************************************************************************)
Procs == {1, 2}
OtherProc(p) == 3 - p

\* The history entry process p appends
RaceOperation(p) ==
    [timestamp |-> p, type |-> "create", details |-> [seq |-> p],
     undoable |-> TRUE, undo_func |-> Some("delete")]

\* An earlier history of n entries
EarlierHistory(n) ==
    [i \in 1..n |-> [timestamp |-> 0, type |-> "create", details |-> [seq |-> 0],
                     undoable |-> TRUE, undo_func |-> Some("delete")]]

\* The preference process p sets: different keys
RaceKey(p) == IF p = 1 THEN "timezone" ELSE "user_email"
RaceValue(p) == IF p = 1 THEN PyStr("Asia/Tokyo") ELSE PyStr("me@x")

\* history.py:39-53 -- json.load, append, keep the last MAX_HISTORY_ENTRIES
LocalHistoryUncapped(file, p) == Append(file.operations, RaceOperation(p))
LocalHistory(file, p) ==
    TruncateHistory(Append(file.operations, RaceOperation(p)))

\* config.py:81-82 -- prefs = load_preferences(); prefs[key] = value
LocalPreferences(file, p) ==
    Put(load_preferences(file), RaceKey(p), RaceValue(p))

\* No process has opened the file for writing yet
NoneWriting == \A q \in Procs : rcPc[q] \in {"start", "ensured", "loaded", "raised"}

\* history.py:16-21, config.py:14-30 -- the file is created when missing
RaceEnsure(p) ==
    /\ rcPc[p] = "start"
    /\ rcPc' = [rcPc EXCEPT ![p] = "ensured"]
    /\ IF rcStore = "history"
       THEN histFile' = ensure_history_file(histFile) /\ UNCHANGED prefFile
       ELSE prefFile' = ensure_preferences_file(prefFile) /\ UNCHANGED histFile
    /\ UNCHANGED <<rcStore, rcLocal>>

\* history.py:39-53, config.py:39-44 and 81-82 -- read the file and change
\* the copy in memory; json.load of a file the other process has emptied
\* raises in add_operation and gives the defaults in load_preferences
RaceLoad(p) ==
    /\ rcPc[p] = "ensured"
    /\ IF rcStore = "history" /\ histFile.corrupt
       THEN /\ rcPc' = [rcPc EXCEPT ![p] = "raised"]
            /\ UNCHANGED rcLocal
       ELSE /\ rcPc' = [rcPc EXCEPT ![p] = "loaded"]
            /\ rcLocal' = [rcLocal EXCEPT ![p] =
                   Some([early |-> NoneWriting,
                         data |-> IF rcStore = "history"
                                  THEN LocalHistory(histFile, p)
                                  ELSE LocalPreferences(prefFile, p)])]
    /\ UNCHANGED <<rcStore, histFile, prefFile>>

\* history.py:55, config.py:52 -- open(file, "w") leaves an empty file
RaceOpen(p) ==
    /\ rcPc[p] = "loaded"
    /\ rcPc' = [rcPc EXCEPT ![p] = "opened"]
    /\ IF rcStore = "history"
       THEN histFile' = FileCorrupt /\ UNCHANGED prefFile
       ELSE prefFile' = CorruptFile /\ UNCHANGED histFile
    /\ UNCHANGED <<rcStore, rcLocal>>

\* history.py:56, config.py:53 -- json.dump and close: the file holds what
\* this process had in memory.  When the other process has written since
\* this one opened the file, the two texts overlay: the file holds this
\* process's text, followed by the tail of the other's when that was longer
\* (`torn`).  A process that still has the file open sees its text replaced.
RaceDump(p, torn) ==
    /\ rcPc[p] \in {"opened", "overwritten"}
    /\ torn => rcPc[p] = "overwritten"
    /\ rcPc' = [q \in Procs |->
                  IF q = p THEN "done"
                  ELSE IF rcPc[q] = "opened" THEN "overwritten" ELSE rcPc[q]]
    /\ IF rcStore = "history"
       THEN /\ histFile' = IF torn THEN FileCorrupt
                           ELSE FileWith(Val(rcLocal[p]).data)
            /\ UNCHANGED prefFile
       ELSE /\ prefFile' = IF torn THEN CorruptFile
                           ELSE JsonFile(JsonDumpDict(Val(rcLocal[p]).data))
            /\ UNCHANGED histFile
    /\ UNCHANGED <<rcStore, rcLocal>>

\* One step of one of the two processes
RaceStep(p) ==
    /\ rcStore # "none"
    /\ \/ RaceEnsure(p)
       \/ RaceLoad(p)
       \/ RaceOpen(p)
       \/ \E torn \in BOOLEAN : RaceDump(p, torn)
    /\ UNCHANGED <<varsRetry, varsSlots, varsCal, varsTok, varsContacts,
                   varsTpl, varsAcct, varsStore, moreRaceRest>>
    /\ UNCHANGED <<hCount, hPattern, hRet, prefLast, prefCalls>>

(***************************************************************************)
(* api.py: find_available_slots followed loop by loop, so that a call that *)
(* does not come back is a behaviour of the model.  The only `timezone`    *)
(* argument with which api.py:602-612 does not raise is an object with a   *)
(* `utc` attribute (the class datetime.timezone); ZoneInfo rejects it and  *)
(* tz is UTC, so local and UTC times coincide in the loops.                *)
(***************************************************************************)
MaxIterations == 8

\* merged_busy of the call in progress
LoopMergedBusy == MergeStep(Val(slIn).freebusy)

\* api.py:528-620 -- the call up to the head of the date loop
SlotsCall(a) ==
    /\ slPc = "idle"
    /\ slIn' = Some(a)
    /\ slSlots' = <<>>
    /\ IF ~ HasAttrUtc(a.timezone)
       THEN /\ slPc' = "done"
            /\ slOut' = Some(Raised("AttributeError: object has no attribute 'utc'"))
            /\ UNCHANGED slDay
       ELSE /\ slPc' = "day"
            /\ slOut' = None
            /\ slDay' = [NoDay EXCEPT !.current_date = DateOf(a.time_min)]
    /\ UNCHANGED frameLoopOnly

\* api.py:622-642 and 671-676 -- one test of `while current_date <=
\* end_date`: return the sorted slots, skip a weekend day, or set up the day
DayStep ==
    /\ slPc = "day"
    /\ LET a == Val(slIn)
           current_date == slDay.current_date
           day_start0 == current_date * MinutesPerDay
                           + a.working_hours_start * MinutesPerHour
           day_end0 == current_date * MinutesPerDay
                           + a.working_hours_end * MinutesPerHour
           day_start == IF day_start0 < a.time_min THEN a.time_min ELSE day_start0
           day_end == IF day_end0 > a.time_max THEN a.time_max ELSE day_end0
       IN  IF ~ (current_date <= DateOf(a.time_max))
           THEN /\ slPc' = "done"
                /\ slOut' = Some(Returned(SortByStart(slSlots)))
                /\ UNCHANGED slDay
           ELSE IF a.exclude_weekends /\ Weekday(current_date) >= 5
           THEN /\ slDay' = [slDay EXCEPT !.current_date = @ + 1]
                /\ UNCHANGED <<slPc, slOut>>
           ELSE IF ~ ( a.working_hours_start \in 0..23
                       /\ a.working_hours_end \in 0..23 )
           THEN /\ slPc' = "done"
                /\ slOut' = Some(Raised("ValueError: hour must be in 0..23"))
                /\ UNCHANGED slDay
           ELSE /\ slPc' = "slot"
                /\ slDay' = [current_date |-> current_date, day_end |-> day_end,
                             slot_start |-> day_start, iterations |-> 0]
                /\ UNCHANGED slOut
    /\ UNCHANGED <<slIn, slSlots>>
    /\ UNCHANGED frameLoopOnly

\* api.py:643 -- one test of `while slot_start + duration_delta <= day_end`
SlotTest ==
    /\ slPc = "slot"
    /\ IF slDay.slot_start + Val(slIn).duration_minutes <= slDay.day_end
       THEN /\ slPc' = "body"
            /\ UNCHANGED slDay
       ELSE /\ slPc' = "day"
            /\ slDay' = [slDay EXCEPT !.current_date = @ + 1]
    /\ UNCHANGED <<slIn, slSlots, slOut>>
    /\ UNCHANGED frameLoopOnly

\* api.py:644-666 -- one run of the loop body.  The model follows the first
\* MaxIterations iterations of a day exactly; in a further iteration it no
\* longer records what the body appends or how far slot_start has moved.  A
\* day of working hours has fewer iterations than that for every positive
\* duration among the inputs.
SlotBody ==
    /\ slPc = "body"
    /\ LET a == Val(slIn)
           duration_delta == a.duration_minutes
           slot_start == slDay.slot_start
           slot_end == slot_start + duration_delta
           is_free == /\ SlotIsFree(slot_start, slot_end, LoopMergedBusy)
                      /\ ~ (slot_start < a.time_min \/ slot_end > a.time_max)
       IN  IF slDay.iterations < MaxIterations
           THEN /\ slSlots' = IF is_free
                              THEN Append(slSlots, <<slot_start, slot_end>>)
                              ELSE slSlots
                /\ slDay' = [slDay EXCEPT !.slot_start = @ + duration_delta,
                                          !.iterations = @ + 1]
           ELSE UNCHANGED <<slSlots, slDay>>
    /\ slPc' = "slot"
    /\ UNCHANGED <<slIn, slOut>>
    /\ UNCHANGED frameLoopOnly

LoopResponses ==
    { << Cal("a@x", FALSE, <<>>) >>,
      << Cal("a@x", FALSE, << <<At(0, 9, 15), At(0, 9, 45)>> >>) >>,
      << Cal("a@x", FALSE, << <<At(0, 9, 0), At(0, 9, 30)>> >>),
         Cal("b@x", FALSE, << <<At(0, 10, 30), At(0, 11, 0)>> >>) >> }

LoopWindows ==
    { <<At(0, 9, 0), At(0, 11, 0)>>,
      <<At(5, 10, 0), At(7, 10, 0)>> }

LoopTimezones == {PyStr("UTC"), DatetimeTimezoneClass}

LoopArgs ==
    { [attendee_emails |-> [i \in 1..Len(fb) |-> fb[i].id],
       duration_minutes |-> d,
       time_min |-> w[1],
       time_max |-> w[2],
       working_hours_start |-> wh[1],
       working_hours_end |-> wh[2],
       exclude_weekends |-> xw,
       timezone |-> tz,
       freebusy |-> fb] :
         fb \in LoopResponses, d \in {-30, 0, 30, 60}, w \in LoopWindows,
         wh \in {<<9, 11>>, <<10, 11>>}, xw \in BOOLEAN,
         tz \in LoopTimezones }

(***************************************************************************)
(* api.py: create_event under its @with_retry() wrapper, with a server     *)
(* that may store the event although the client does not get the answer.   *)
(***************************************************************************)
\* The ids the server gives to new events
EventId(n) == CASE n = 1 -> "e1" [] n = 2 -> "e2" [] n = 3 -> "e3" [] OTHER -> "eN"

\* How one events().insert(...).execute() can end: the server stores the
\* event or not, and the client gets the response or an exception
InsertOutcomes ==
    {[stored |-> TRUE, error |-> None],
     [stored |-> TRUE, error |-> Some(ConnectionReset)],
     [stored |-> FALSE, error |-> Some(ConnectionReset)],
     [stored |-> FALSE, error |-> Some(RemoteHttpError(400))],
     [stored |-> FALSE, error |-> Some(RemoteHttpError(503))],
     [stored |-> FALSE, error |-> Some(RemoteHttpError(504))]}

InsertArgs ==
    {[summary |-> summary, start_time |-> start, end_time |-> None,
      description |-> None, location |-> None, attendees |-> None,
      timezone |-> "UTC"] :
        summary \in {"Lunch", "Standup"},
        start \in {None, Some("2024-03-05 10:00"), Some("whenever")}}

\* str(KeyError('start')), raised at api.py:192 when the start did not parse
KeyErrorStart == PlainError(<<"'","s","t","a","r","t","'">>)

\* retry.py:46-69 -- the wrapper has caught `error` from this attempt
CreateCaught(error) ==
    IF WrapperRetries(insAttempt, error)
    THEN /\ insAttempt' = insAttempt + 1
         /\ UNCHANGED <<insPc, insValue>>
    ELSE /\ insPc' = "raised"
         /\ insValue' = Some(error)
         /\ UNCHANGED insAttempt

\* api.py:118 -- create_event is called once
CreateCall(kw) ==
    /\ insPc = "idle"
    /\ insIn' = Some(kw)
    /\ insPc' = "running"
    /\ insAttempt' = 0
    /\ insValue' = None
    /\ UNCHANGED varsCal
    /\ UNCHANGED varsHist
    /\ UNCHANGED <<varsRetry, varsSlots, varsTok, varsPref, varsContacts,
                   varsTpl, varsAcct, varsStore, moreInsRest>>

\* api.py:153-241 -- one attempt: build the body and call events().insert
CreateAttempt(outcome) ==
    /\ insPc = "running"
    /\ LET body == CreateEventBody(Val(insIn))
           id == EventId(nextId + 1)
       IN  IF IsNone(body)
           THEN /\ CreateCaught(KeyErrorStart)
                /\ UNCHANGED <<events, nextId>>
           ELSE /\ IF outcome.stored
                   THEN /\ nextId' = nextId + 1
                        /\ events' = [k \in (DOMAIN events) \cup {id} |->
                                         IF k = id THEN InsertedEvent(Val(body), id)
                                         ELSE events[k]]
                   ELSE UNCHANGED <<events, nextId>>
                /\ IF IsNone(outcome.error)
                   THEN /\ insPc' = "returned"
                        /\ insValue' = Some(InsertedEvent(Val(body), id))
                        /\ UNCHANGED insAttempt
                   ELSE CreateCaught(RaisedBy("create_event", Val(outcome.error)))
    /\ UNCHANGED insIn
    /\ UNCHANGED <<secondary, apiLast, cliLast, cliCount>>
    /\ UNCHANGED varsHist
    /\ UNCHANGED <<varsRetry, varsSlots, varsTok, varsPref, varsContacts,
                   varsTpl, varsAcct, varsStore, moreInsRest>>

(***************************************************************************)
(* cli.py: the commands that change the remote calendar.  `remote_ok` is   *)
(* whether the command's mutating remote call succeeds; a failed call      *)
(* changes nothing on the calendar.  The record of the last command keeps  *)
(* what the command was given, whether it asked for confirmation, whether  *)
(* it issued its mutating remote call and whether the calendar changed.    *)
(***************************************************************************)
MaxCommands == 3
MaxEvents == 2

Ops(file) == file.operations

PrevCmd == [cmd |-> cliLast.cmd,
            ok |-> IF cliLast.cmd = "none" THEN FALSE ELSE cliLast.outcome = "ok"]

\* The command-line texts and the same texts as the characters the template
\* functions work on
KnownTexts ==
    {"", "Lunch", "Standup", "2024-03-05 10:00", "whenever", "notes", "Cafe",
     "Weekly sync", "Room 4", "None"}

Chars(text) ==
    CASE text = "" -> <<>>
      [] text = "Lunch" -> C_Lunch
      [] text = "Standup" -> C_Standup
      [] text = "2024-03-05 10:00" -> C_TenOClock
      [] text = "whenever" -> C_Whenever
      [] text = "notes" -> C_Notes
      [] text = "Cafe" -> C_Cafe
      [] text = "Weekly sync" -> C_WeeklySync
      [] text = "Room 4" -> C_RoomFour
      [] text = "None" -> StrOfNone

Text(chars) ==
    IF \E t \in KnownTexts : Chars(t) = chars
    THEN CHOOSE t \in KnownTexts : Chars(t) = chars
    ELSE "(other text)"

\* str(value) of an optional command-line text
StrOfOpt(opt) == IF IsNone(opt) THEN StrOfNone ELSE Chars(Val(opt))

\* cli.py:609-611 -- template_data.get(key) or explicit: the template's
\* value whenever it is a non-empty string, the explicit value otherwise
TemplateOr(template_data, key, explicit) ==
    IF /\ key \in DOMAIN template_data
       /\ template_data[key].kind = "str"
       /\ template_data[key].chars # <<>>
    THEN Some(Text(template_data[key].chars))
    ELSE explicit

\* cli.py:612-613 -- the attendees after the template's are appended
MergedAttendees(template_data, attendee) ==
    IF /\ "attendees" \in DOMAIN template_data
       /\ template_data["attendees"].kind = "list"
       /\ template_data["attendees"].items # <<>>
    THEN attendee \o template_data["attendees"].items
    ELSE attendee

\* cli.py:583-684 -- create: the timezone preference, the template merge,
\* the dry run, create_event, then add_operation("create", ...)
CmdCreate(title, start, description, location, template, dry_run, remote_ok) ==
    /\ cliCount < MaxCommands
    /\ nextId < MaxEvents
    /\ cliCount' = cliCount + 1
    /\ prefFile' = ensure_preferences_file(prefFile)
    /\ LET timezone == get_preference(prefFile, "timezone", PyStr("UTC")).value
           template_data ==
               IF IsNone(template) THEN None
               ELSE render_template(tplDir, Val(template),
                        <<Kw(C_Title, Chars(title)), Kw(C_Start, StrOfOpt(start)),
                          Kw(C_End, StrOfNone)>>)
           merged == ~ IsNone(template) /\ ~ IsNone(template_data)
           title2 == IF merged
                     THEN Val(TemplateOr(Val(template_data), "title", Some(title)))
                     ELSE title
           description2 ==
               IF merged THEN TemplateOr(Val(template_data), "description", description)
               ELSE description
           location2 ==
               IF merged THEN TemplateOr(Val(template_data), "location", location)
               ELSE location
           attendee2 ==
               IF merged THEN MergedAttendees(Val(template_data), <<>>) ELSE <<>>
           kw == [summary |-> title2, start_time |-> start, end_time |-> None,
                  description |-> description2, location |-> location2,
                  attendees |-> IF attendee2 = <<>> THEN None ELSE Some(attendee2),
                  timezone |-> timezone]
           body == CreateEventBody(kw)
           id == EventId(nextId + 1)
           given == [title |-> title, description |-> description,
                     location |-> location, template |-> template]
           done(outcome, event_id, call) ==
               [cmd |-> "create", outcome |-> outcome, prev |-> PrevCmd,
                given |-> given, event_id |-> event_id, dry_run |-> dry_run,
                remote_call |-> call, mutated |-> outcome = "ok"]
       IN  IF ~ IsNone(template) /\ IsNone(template_data)
           THEN /\ cliLast' = done("error", "", FALSE)
                /\ UNCHANGED <<events, nextId, histFile>>
           ELSE IF dry_run
           THEN /\ cliLast' = done("dry run", "", FALSE)
                /\ UNCHANGED <<events, nextId, histFile>>
           ELSE IF IsNone(body) \/ ~ remote_ok
           THEN /\ cliLast' = done("error", "", ~ IsNone(body))
                /\ UNCHANGED <<events, nextId, histFile>>
           ELSE /\ events' = [k \in (DOMAIN events) \cup {id} |->
                                 IF k = id THEN InsertedEvent(Val(body), id)
                                 ELSE events[k]]
                /\ nextId' = nextId + 1
                /\ histFile' = add_operation(histFile, cliCount', "create",
                                   [event_id |-> id, title |-> title2,
                                    calendar |-> "primary"],
                                   TRUE, Some("delete"))
                /\ cliLast' = done("ok", id, TRUE)
    /\ UNCHANGED <<secondary, apiLast, hCount, hPattern, hRet, prefLast, prefCalls>>
    /\ UNCHANGED <<varsRetry, varsSlots, varsTok, varsContacts, varsTpl, varsAcct, varsStore, varsMore>>

\* cli.py:706-778 -- update: the dry run, get_event for the undo record,
\* update_event, then add_operation("update", ...)
CmdUpdate(event_id, title, description, dry_run, remote_ok) ==
    /\ cliCount < MaxCommands
    /\ cliCount' = cliCount + 1
    /\ LET done(outcome, call) ==
               [cmd |-> "update", outcome |-> outcome, prev |-> PrevCmd,
                event_id |-> event_id, dry_run |-> dry_run,
                remote_call |-> call, mutated |-> outcome = "ok"]
       IN  IF dry_run
           THEN /\ cliLast' = done("dry run", FALSE)
                /\ UNCHANGED <<events, histFile>>
           ELSE IF event_id \notin DOMAIN events \/ ~ remote_ok
           THEN /\ cliLast' = done("error", event_id \in DOMAIN events)
                /\ UNCHANGED <<events, histFile>>
           ELSE LET original_event == events[event_id]
                    kw == [NoUpdate EXCEPT !.summary = title,
                                           !.description = description]
                    body == UpdateEventBody(events[event_id], kw)
                IN  /\ events' = [events EXCEPT ![event_id] = body]
                    /\ histFile' = add_operation(histFile, cliCount', "update",
                                       [event_id |-> event_id, calendar |-> "primary",
                                        original |-> original_event],
                                       TRUE, Some("restore"))
                    /\ cliLast' = done("ok", TRUE)
    /\ UNCHANGED <<nextId, secondary, apiLast, hCount, hPattern, hRet>>
    /\ UNCHANGED frameCal

\* click.confirmation_option (cli.py:785, 1184, 1201): an eager --yes flag
\* whose value is asked for at the terminal when the flag is not given;
\* the parameter is processed, and a "no" aborts, before the command body
\* and so before the body looks at --dry-run
Confirmed(yes, answer) == yes \/ answer

\* What the destructive commands record about the confirmation
Confirmation(yes, answer) ==
    [yes |-> yes, prompted |-> ~ yes, answered_yes |-> ~ yes /\ answer]

\* cli.py:781-812 -- delete: the confirmation, the dry run, get_event,
\* delete_event, then add_operation("delete", ..., undoable=False)
CmdDelete(event_id, yes, answer, dry_run, remote_ok) ==
    /\ cliCount < MaxCommands
    /\ cliCount' = cliCount + 1
    /\ LET done(outcome, call) ==
               [cmd |-> "delete", outcome |-> outcome, prev |-> PrevCmd,
                event_id |-> event_id, dry_run |-> dry_run,
                confirmation |-> Confirmation(yes, answer),
                remote_call |-> call, mutated |-> outcome = "ok"]
       IN  IF ~ Confirmed(yes, answer)
           THEN /\ cliLast' = done("aborted", FALSE)
                /\ UNCHANGED <<events, histFile>>
           ELSE IF dry_run
           THEN /\ cliLast' = done("dry run", FALSE)
                /\ UNCHANGED <<events, histFile>>
           ELSE IF event_id \notin DOMAIN events \/ ~ remote_ok
           THEN /\ cliLast' = done("error", event_id \in DOMAIN events)
                /\ UNCHANGED <<events, histFile>>
           ELSE /\ events' = [k \in (DOMAIN events) \ {event_id} |-> events[k]]
                /\ histFile' = add_operation(histFile, cliCount', "delete",
                                   [event_id |-> event_id, calendar |-> "primary",
                                    title |-> events[event_id]["summary"]],
                                   FALSE, None)
                /\ cliLast' = done("ok", TRUE)
    /\ UNCHANGED <<nextId, secondary, apiLast, hCount, hPattern, hRet>>
    /\ UNCHANGED frameCal

\* cli.py:1182-1196 -- delete-calendar: the confirmation, then
\* calendars().delete, which the service refuses for the primary calendar
CmdDeleteCalendar(calendar_id, yes, answer, remote_ok) ==
    /\ cliCount < MaxCommands
    /\ cliCount' = cliCount + 1
    /\ LET done(outcome, call) ==
               [cmd |-> "delete-calendar", outcome |-> outcome, prev |-> PrevCmd,
                calendar_id |-> calendar_id, dry_run |-> FALSE,
                confirmation |-> Confirmation(yes, answer),
                remote_call |-> call, mutated |-> outcome = "ok"]
       IN  IF ~ Confirmed(yes, answer)
           THEN /\ cliLast' = done("aborted", FALSE)
                /\ UNCHANGED secondary
           ELSE IF calendar_id \notin DOMAIN secondary \/ ~ remote_ok
           THEN /\ cliLast' = done("error", TRUE)
                /\ UNCHANGED secondary
           ELSE /\ secondary' = [c \in (DOMAIN secondary) \ {calendar_id} |->
                                    secondary[c]]
                /\ cliLast' = done("ok", TRUE)
    /\ UNCHANGED <<events, nextId, apiLast>>
    /\ UNCHANGED varsHist
    /\ UNCHANGED frameCal

\* cli.py:1199-1213 -- clear-calendar: the confirmation, then
\* calendars().clear, which the service accepts for the primary calendar only
CmdClearCalendar(calendar_id, yes, answer, remote_ok) ==
    /\ cliCount < MaxCommands
    /\ cliCount' = cliCount + 1
    /\ LET done(outcome, call) ==
               [cmd |-> "clear-calendar", outcome |-> outcome, prev |-> PrevCmd,
                calendar_id |-> calendar_id, dry_run |-> FALSE,
                confirmation |-> Confirmation(yes, answer),
                remote_call |-> call, mutated |-> outcome = "ok"]
       IN  IF ~ Confirmed(yes, answer)
           THEN /\ cliLast' = done("aborted", FALSE)
                /\ UNCHANGED events
           ELSE IF calendar_id # "primary" \/ ~ remote_ok
           THEN /\ cliLast' = done("error", TRUE)
                /\ UNCHANGED events
           ELSE /\ events' = NoEvents
                /\ cliLast' = done("ok", TRUE)
    /\ UNCHANGED <<nextId, secondary, apiLast>>
    /\ UNCHANGED varsHist
    /\ UNCHANGED frameCal

\* events().quickAdd: the server stores an event it builds from the text
QuickAddedEvent(text, id) == Put(BaseEvent(id), "summary", text)

\* cli.py:933-948 -- quick-add: quick_add_event and nothing else
CmdQuickAdd(text, remote_ok) ==
    /\ cliCount < MaxCommands
    /\ nextId < MaxEvents
    /\ cliCount' = cliCount + 1
    /\ LET id == EventId(nextId + 1)
           done(outcome, event_id) ==
               [cmd |-> "quick-add", outcome |-> outcome, prev |-> PrevCmd,
                event_id |-> event_id, dry_run |-> FALSE,
                remote_call |-> TRUE, mutated |-> outcome = "ok"]
       IN  IF ~ remote_ok
           THEN /\ cliLast' = done("error", "")
                /\ UNCHANGED <<events, nextId>>
           ELSE /\ events' = [k \in (DOMAIN events) \cup {id} |->
                                 IF k = id THEN QuickAddedEvent(text, id)
                                 ELSE events[k]]
                /\ nextId' = nextId + 1
                /\ cliLast' = done("ok", id)
    /\ UNCHANGED <<secondary, apiLast>>
    /\ UNCHANGED varsHist
    /\ UNCHANGED frameCal

\* cli.py:951-969 -- move: move_event from the primary calendar to
\* `destination_calendar` and nothing else
CmdMove(event_id, destination_calendar, remote_ok) ==
    /\ cliCount < MaxCommands
    /\ cliCount' = cliCount + 1
    /\ LET done(outcome) ==
               [cmd |-> "move", outcome |-> outcome, prev |-> PrevCmd,
                event_id |-> event_id, dry_run |-> FALSE,
                remote_call |-> TRUE, mutated |-> outcome = "ok"]
       IN  IF \/ event_id \notin DOMAIN events
              \/ destination_calendar \notin DOMAIN secondary
              \/ ~ remote_ok
           THEN /\ cliLast' = done("error")
                /\ UNCHANGED <<events, secondary>>
           ELSE /\ events' = [k \in (DOMAIN events) \ {event_id} |-> events[k]]
                /\ secondary' = [secondary EXCEPT ![destination_calendar] =
                                    @ \cup {event_id}]
                /\ cliLast' = done("ok")
    /\ UNCHANGED <<nextId, apiLast>>
    /\ UNCHANGED varsHist
    /\ UNCHANGED frameCal

\* The keyword parameters of update_event (api.py:244-260); `**original`
\* with any other key raises TypeError before the function body runs
UpdateEventParams ==
    {"event_id", "summary", "start_time", "end_time", "description", "location",
     "calendar_id", "attendees", "recurrence", "reminders", "timezone",
     "color_id", "add_meet", "remove_meet"}

\* cli.py:1536 -- update_event(event_id, calendar_id=calendar, **original)
\* binds: every key of `original` must be a parameter that is not yet bound
RestoreCallBinds(original) ==
    (DOMAIN original) \subseteq (UpdateEventParams \ {"event_id", "calendar_id"})

OptKw(original, key) == IF Has(original, key) THEN Some(original[key]) ELSE None

\* The keyword arguments of the restoring call when it binds
RestoreKw(original) ==
    [summary |-> OptKw(original, "summary"),
     start_time |-> OptKw(original, "start_time"),
     end_time |-> OptKw(original, "end_time"),
     description |-> OptKw(original, "description"),
     location |-> OptKw(original, "location"),
     attendees |-> OptKw(original, "attendees"),
     recurrence |-> OptKw(original, "recurrence"),
     reminders |-> OptKw(original, "reminders"),
     timezone |-> OptKw(original, "timezone"),
     color_id |-> OptKw(original, "color_id"),
     add_meet |-> Has(original, "add_meet") /\ original["add_meet"],
     remove_meet |-> Has(original, "remove_meet") /\ original["remove_meet"]]

\* cli.py:1504-1545 -- undo
CmdUndo(remote_ok) ==
    /\ cliCount < MaxCommands
    /\ cliCount' = cliCount + 1
    /\ histFile' = ensure_history_file(histFile)
    /\ LET last_op == get_last_undoable_operation(histFile)
           done(outcome) == [cmd |-> "undo", outcome |-> outcome, op |-> last_op,
                             remote_ok |-> remote_ok, prev |-> PrevCmd,
                             dry_run |-> FALSE, mutated |-> outcome = "ok"]
       IN  IF IsNone(last_op)
           THEN cliLast' = done("nothing to undo") /\ UNCHANGED events
           ELSE LET op == Val(last_op)
                    event_id == op.details.event_id
                IN  IF op.type = "create" /\ op.undo_func = Some("delete")
                    THEN IF event_id \in DOMAIN events /\ remote_ok
                         THEN /\ events' = [k \in (DOMAIN events) \ {event_id} |->
                                               events[k]]
                              /\ cliLast' = done("ok")
                         ELSE cliLast' = done("error") /\ UNCHANGED events
                    ELSE IF op.type = "update" /\ op.undo_func = Some("restore")
                    THEN IF /\ RestoreCallBinds(op.details.original)
                            /\ event_id \in DOMAIN events
                            /\ remote_ok
                         THEN /\ events' = [events EXCEPT ![event_id] =
                                    UpdateEventBody(events[event_id],
                                                    RestoreKw(op.details.original))]
                              /\ cliLast' = done("ok")
                         ELSE cliLast' = done("error") /\ UNCHANGED events
                    ELSE cliLast' = done("cannot undo") /\ UNCHANGED events
    /\ UNCHANGED <<nextId, secondary, apiLast, hCount, hPattern, hRet>>
    /\ UNCHANGED frameCal

InitRetry == RetryIdle /\ HistIdle /\ SlotsIdle /\ CalIdle /\ TokIdle /\ LocalIdle

NextRetry ==
    \/ \E cfg \in RetryCfgs : WrapperCall(cfg)
    \/ \E v \in RetryValues : AttemptReturns(v)
    \/ \E e \in RetryErrors : AttemptRaises(e)

SpecRetry == InitRetry /\ [][NextRetry]_vars

InitHistory ==
    /\ RetryIdle
    /\ TokIdle
    /\ LocalIdle
    /\ SlotsIdle
    /\ CalIdle
    /\ histFile = FileAbsent
    /\ hCount = 0
    /\ hPattern \in HistPatterns
    /\ hRet = [called |-> FALSE, value |-> None]

NextHistory ==
    \/ AddOperation
    \/ GetLastUndoable

SpecHistory == InitHistory /\ [][NextHistory]_vars

InitSlots == RetryIdle /\ HistIdle /\ SlotsIdle /\ CalIdle /\ TokIdle /\ LocalIdle

NextSlots ==
    /\ fasPc = "idle"
    /\ \E a \in FasArgs : FindAvailableSlots(a)

SpecSlots == InitSlots /\ [][NextSlots]_vars

InitUpdate ==
    /\ RetryIdle
    /\ TokIdle
    /\ LocalIdle
    /\ HistIdle
    /\ SlotsIdle
    /\ events \in { [id \in {"e1"} |-> BaseEvent(id)],
                    [id \in {"e1"} |-> RichEvent(id)],
                    [id \in {"e1"} |-> MeetEvent(id)] }
    /\ nextId = 1
    /\ secondary = OneSecondaryCalendar
    /\ apiLast = [op |-> "none"]
    /\ cliLast = [cmd |-> "none"]
    /\ cliCount = 0

NextUpdate ==
    /\ apiLast.op = "none"
    /\ \E event_id \in {"e1", "e9"} : \E kw \in UpdateArgs :
          ApiUpdateEvent(event_id, kw)

SpecUpdate == InitUpdate /\ [][NextUpdate]_vars

\* The template directory of the command-line runs: one stored template
CliTemplates ==
    [name \in TemplateNames |->
        IF name = "sync"
        THEN JsonFile(create_template(Some(C_WeeklySync), None, Some(C_RoomFour),
                                      None))
        ELSE AbsentFile]

InitCli ==
    /\ RetryIdle /\ HistIdle /\ SlotsIdle /\ CalIdle /\ TokIdle
    /\ PrefIdle /\ ContactsIdle /\ AcctIdle /\ StoresIdle /\ MoreIdle
    /\ tplDir = CliTemplates
    /\ tplLast = [op |-> "none"]
    /\ tplCalls = 0

\* How a command may be run: for real with either remote result, or as a
\* dry run, which makes no remote call
RunModes == {[dry_run |-> FALSE, remote_ok |-> TRUE],
             [dry_run |-> FALSE, remote_ok |-> FALSE],
             [dry_run |-> TRUE, remote_ok |-> TRUE]}

\* --yes given, or the answer typed at the prompt
ConfirmationInputs == {[yes |-> TRUE, answer |-> FALSE],
                       [yes |-> FALSE, answer |-> TRUE],
                       [yes |-> FALSE, answer |-> FALSE]}

NextCli ==
    \/ \E start \in {None, Some("whenever")} :
       \E description \in {None, Some("notes")} :
       \E location \in {None, Some("Cafe")} :
       \E template \in {None, Some("sync"), Some("retro")} :
       \E mode \in RunModes :
          CmdCreate("Lunch", start, description, location, template,
                    mode.dry_run, mode.remote_ok)
    \/ \E event_id \in {"e1", "e2"} : \E title \in {None, Some("Retro")} :
       \E description \in {None, Some("agenda")} : \E mode \in RunModes :
          CmdUpdate(event_id, title, description, mode.dry_run, mode.remote_ok)
    \/ \E event_id \in {"e1", "e2"} : \E c \in ConfirmationInputs :
       \E mode \in RunModes :
          CmdDelete(event_id, c.yes, c.answer, mode.dry_run, mode.remote_ok)
    \/ \E calendar_id \in {"primary", "work"} : \E c \in ConfirmationInputs :
       \E remote_ok \in BOOLEAN :
          CmdDeleteCalendar(calendar_id, c.yes, c.answer, remote_ok)
    \/ \E calendar_id \in {"primary", "work"} : \E c \in ConfirmationInputs :
       \E remote_ok \in BOOLEAN :
          CmdClearCalendar(calendar_id, c.yes, c.answer, remote_ok)
    \/ \E text \in {"Standup"} : \E remote_ok \in BOOLEAN :
          CmdQuickAdd(text, remote_ok)
    \/ \E event_id \in {"e1", "e2"} : \E destination_calendar \in {"work", "ghost"} :
       \E remote_ok \in BOOLEAN :
          CmdMove(event_id, destination_calendar, remote_ok)
    \/ \E remote_ok \in BOOLEAN : CmdUndo(remote_ok)

SpecCli == InitCli /\ [][NextCli]_vars

InitApi == RetryIdle /\ HistIdle /\ SlotsIdle /\ CalIdle /\ TokIdle /\ LocalIdle

NextApi ==
    \/ \E op \in RetryWrappedOps : ApiCall(op)
    \/ RemoteSucceeds
    \/ \E status \in RemoteStatuses : RemoteFails(status)

SpecApi == InitApi /\ [][NextApi]_vars

InitAccount ==
    /\ RetryIdle /\ HistIdle /\ SlotsIdle /\ CalIdle /\ TokIdle
    /\ PrefIdle /\ ContactsIdle /\ TplIdle /\ StoresIdle /\ MoreIdle
    /\ acctFile \in AccountFiles
    /\ acctProcess \in Processes
    /\ acctLast = [op |-> "none"]
    /\ acctCalls = 0

NextAccount ==
    \/ \E account_name \in AccountNames : SetDefaultAccount(account_name)
    \/ \E alias \in AliasNames : \E account_email \in AccountNames :
          SetAccountAlias(alias, account_email)
    \/ \E global_flag \in AccountFlags : \E command_flag \in AccountFlags :
          InvokeCommand(global_flag, command_flag)

SpecAccount == InitAccount /\ [][NextAccount]_vars

InitStores ==
    /\ RetryIdle /\ SlotsIdle /\ CalIdle /\ TokIdle /\ TplIdle /\ StoresIdle /\ MoreIdle
    /\ histFile \in HistoryFiles
    /\ hCount = 0
    /\ hPattern = [period |-> 1, upto |-> 0]
    /\ hRet = [called |-> FALSE, value |-> None]
    /\ prefFile \in {AbsentFile, CorruptFile}
    /\ prefLast = [op |-> "none"]
    /\ prefCalls = 0
    /\ ctFile \in ContactFiles
    /\ ctLast = [op |-> "none"]
    /\ ctCalls = 0
    /\ acctFile \in {AbsentFile, CorruptFile, JsonFile(WorkConfig)}
    /\ acctProcess = [env |-> None, profile |-> None]
    /\ acctLast = [op |-> "none"]
    /\ acctCalls = 0

NextStores ==
    \/ \E op \in HistoryOps : HistoryCall(op)
    \/ \E key \in {"timezone", "nickname"} : PreferenceRead(key)
    \/ ContactsRead
    \/ ConfigRead

SpecStores == InitStores /\ [][NextStores]_vars

InitPref ==
    /\ RetryIdle /\ HistIdle /\ SlotsIdle /\ CalIdle /\ TokIdle
    /\ ContactsIdle /\ TplIdle /\ AcctIdle /\ StoresIdle /\ MoreIdle
    /\ prefFile \in PrefFiles
    /\ prefLast = [op |-> "none"]
    /\ prefCalls = 0

NextPref ==
    \/ \E key \in PrefKeys : \E default \in PrefValues : GetPreference(key, default)
    \/ \E key \in PrefKeys : \E value \in PrefValues : SetPreference(key, value)

SpecPref == InitPref /\ [][NextPref]_vars

InitContacts ==
    /\ RetryIdle /\ HistIdle /\ SlotsIdle /\ CalIdle /\ TokIdle
    /\ PrefIdle /\ TplIdle /\ AcctIdle /\ StoresIdle /\ MoreIdle
    /\ ctFile \in ContactFiles
    /\ ctLast = [op |-> "none"]
    /\ ctCalls = 0

NextContacts ==
    \/ \E email \in ContactEmails : \E name \in ContactNames :
       \E groups \in GroupLists : AddContact(email, name, groups)
    \/ \E email \in ContactEmails : \E name \in {None, Some(N_Al)} :
       \E groups \in {None} \cup {Some(g) : g \in GroupLists} :
          UpdateContact(email, name, groups)
    \/ \E email \in ContactEmails : RemoveContact(email)
    \/ \E name \in GroupNames : AddGroup(name)
    \/ \E name \in GroupNames : RemoveGroup(name)
    \/ \E names_or_emails \in ResolveInputs : ResolveContacts(names_or_emails)

SpecContacts == InitContacts /\ [][NextContacts]_vars

InitTemplates ==
    /\ RetryIdle /\ HistIdle /\ SlotsIdle /\ CalIdle /\ TokIdle
    /\ PrefIdle /\ ContactsIdle /\ AcctIdle /\ StoresIdle /\ MoreIdle
    /\ tplDir \in [TemplateNames -> {AbsentFile, CorruptFile}]
    /\ tplLast = [op |-> "none"]
    /\ tplCalls = 0

NextTemplates ==
    \/ \E name \in TemplateNames : \E title \in TemplateTitles :
       \E description \in TemplateDescriptions :
       \E location \in TemplateLocations : \E attendees \in TemplateAttendees :
          CreateTemplate(name, title, description, location, attendees)
    \/ \E name \in TemplateNames : DeleteTemplate(name)
    \/ \E name \in TemplateNames : \E kwargs \in RenderKwargs :
          RenderTemplate(name, kwargs)

SpecTemplates == InitTemplates /\ [][NextTemplates]_vars

InitToken ==
    /\ RetryIdle /\ HistIdle /\ SlotsIdle /\ CalIdle /\ LocalIdle
    /\ tokUnified \in TokenFiles
    /\ tokService \in TokenFiles
    /\ tokLast = [op |-> "none"]
    /\ tokSteps = 0

NextToken ==
    \/ \E required_scopes \in {None, Some(SCOPES)} :
          CheckTokenHealth(required_scopes)
    \/ \E refresh_ok \in BOOLEAN : RefreshToken(Some(SCOPES), refresh_ok)
    \/ \E inline_ok \in BOOLEAN : \E shared_ok \in BOOLEAN :
          GetCredentials(inline_ok, shared_ok)
    \/ \E inline_ok \in BOOLEAN : \E shared_ok \in BOOLEAN :
          ConstructCalendarAPI(inline_ok, shared_ok)

SpecToken == InitToken /\ [][NextToken]_vars

InitMerge ==
    /\ RetryIdle /\ HistIdle /\ SlotsIdle /\ CalIdle /\ TokIdle
    /\ PrefIdle /\ ContactsIdle /\ TplIdle /\ AcctIdle /\ StoresIdle
    /\ NestIdle /\ RaceIdle /\ LoopIdle /\ InsIdle
    /\ mgIn \in MergeResponses
    /\ mgOut = None

NextMerge == Merge

SpecMerge == InitMerge /\ [][NextMerge]_vars

InitNested ==
    /\ RetryIdle /\ HistIdle /\ SlotsIdle /\ CalIdle /\ TokIdle
    /\ PrefIdle /\ ContactsIdle /\ TplIdle /\ AcctIdle /\ StoresIdle
    /\ MoreIdle

NextNested ==
    \/ \E op \in NestedOps : NestedCall(op)
    \/ \E outcome \in {None} \cup {Some(e) : e \in RemoteFailures} :
          InnerRemoteCall(outcome)
    \/ \E outcome \in {None} \cup {Some(e) : e \in RemoteFailures} :
          OuterRemoteCall(outcome)

SpecNested == InitNested /\ [][NextNested]_vars

InitAttendees ==
    /\ RetryIdle /\ TokIdle /\ LocalIdle /\ HistIdle /\ SlotsIdle
    /\ events \in { [id \in {"e1"} |-> BaseEvent(id)],
                    [id \in {"e1"} |-> RichEvent(id)] }
    /\ nextId = 1
    /\ secondary = OneSecondaryCalendar
    /\ apiLast = [op |-> "none"]
    /\ cliLast = [cmd |-> "none"]
    /\ cliCount = 0

NextAttendees ==
    \E event_id \in {"e1", "e9"} : \E attendee_emails \in EmailLists(MaxEmails) :
        ApiAddAttendees(event_id, attendee_emails)

SpecAttendees == InitAttendees /\ [][NextAttendees]_vars

InitRace ==
    /\ RetryIdle /\ SlotsIdle /\ CalIdle /\ TokIdle
    /\ ContactsIdle /\ TplIdle /\ AcctIdle /\ StoresIdle
    /\ MergeIdle /\ NestIdle /\ LoopIdle /\ InsIdle
    /\ hCount = 0
    /\ hPattern = [period |-> 1, upto |-> 0]
    /\ hRet = [called |-> FALSE, value |-> None]
    /\ prefLast = [op |-> "none"] /\ prefCalls = 0
    /\ rcStore \in {"history", "prefs"}
    /\ rcPc = [p \in Procs |-> "start"]
    /\ rcLocal = [p \in Procs |-> None]
    /\ IF rcStore = "history"
       THEN /\ histFile \in {FileAbsent, FileWith(EarlierHistory(1)),
                             FileWith(EarlierHistory(MAX_HISTORY_ENTRIES - 1)),
                             FileWith(EarlierHistory(MAX_HISTORY_ENTRIES))}
            /\ prefFile = AbsentFile
       ELSE /\ prefFile \in {AbsentFile,
                             JsonFile(JsonDumpDict(get_default_preferences))}
            /\ histFile = FileAbsent

NextRace == \E p \in Procs : RaceStep(p)

SpecRace == InitRace /\ [][NextRace]_vars

InitLoop ==
    /\ RetryIdle /\ HistIdle /\ SlotsIdle /\ CalIdle /\ TokIdle
    /\ PrefIdle /\ ContactsIdle /\ TplIdle /\ AcctIdle /\ StoresIdle
    /\ MoreIdle

NextLoop ==
    \/ \E a \in LoopArgs : SlotsCall(a)
    \/ DayStep
    \/ SlotTest
    \/ SlotBody

SpecLoop == InitLoop /\ [][NextLoop]_vars

\* the interpreter keeps running the call: every enabled step is taken
SpecLoopLive == SpecLoop /\ WF_vars(NextLoop)

InitInsert ==
    /\ RetryIdle /\ HistIdle /\ SlotsIdle /\ CalIdle /\ TokIdle
    /\ PrefIdle /\ ContactsIdle /\ TplIdle /\ AcctIdle /\ StoresIdle
    /\ MoreIdle

NextInsert ==
    \/ \E kw \in InsertArgs : CreateCall(kw)
    \/ \E outcome \in InsertOutcomes : CreateAttempt(outcome)

SpecInsert == InitInsert /\ [][NextInsert]_vars

(***************************************************************************)
(* Claims                                                                  *)
(***************************************************************************)
AllRetryableFailures ==
    \A i \in 1..Len(rTrace) :
        ~ rTrace[i].ok /\ is_retryable_error(rTrace[i].value)

\* C1: a non-retryable error of an attempt propagates after that attempt with
\* no sleep; when every attempt raises a retryable error the function is
\* invoked exactly max_retries + 1 times and the last exception is raised
\* unchanged; a successful attempt's value is returned and nothing is invoked
\* after it.
C1_RetryOutcome ==
    LET n == Len(rTrace) IN
    /\ rCalls = n
    /\ \A i \in 1..n :
          (~ rTrace[i].ok /\ ~ is_retryable_error(rTrace[i].value)) =>
              /\ i = n
              /\ rState = "raised"
              /\ rValue = Some(rTrace[i].value)
              /\ Len(rSleeps) = i - 1
    /\ (rState \in {"returned", "raised"} /\ AllRetryableFailures) =>
              /\ rCalls = rCfg.max_retries + 1
              /\ rState = "raised"
              /\ rValue = Some(rTrace[n].value)
    /\ \A i \in 1..n :
          rTrace[i].ok =>
              /\ i = n
              /\ rState = "returned"
              /\ rValue = Some(rTrace[i].value)

C1_Witness ==
    /\ rState = "raised"
    /\ rCfg.max_retries = 2
    /\ rCalls = 3
    /\ AllRetryableFailures
    /\ rValue = Some(PlainError(T_Timeout))

\* C2: the sleep after failed attempt k (k = 0..max_retries-1) is
\* initial_delay * backoff_factor^k and no sleep follows the final attempt;
\* with initial_delay=1, backoff_factor=2, max_retries=3 and only retryable
\* failures the sleeps are 1, 2, 4 and the function is invoked 4 times.
C2_BackoffDelays ==
    /\ Len(rSleeps) <= rCfg.max_retries
    /\ \A k \in 1..Len(rSleeps) :
          rSleeps[k] = rCfg.initial_delay * Pow(rCfg.backoff_factor, k - 1)
    /\ (rState = "raised" /\ AllRetryableFailures) =>
          Len(rSleeps) = rCfg.max_retries
    /\ ( /\ rState = "raised"
         /\ AllRetryableFailures
         /\ rCfg = [max_retries |-> 3, backoff_factor |-> 2, initial_delay |-> 1] )
       => (rSleeps = <<1, 2, 4>> /\ rCalls = 4)

C2_Witness ==
    /\ rState = "raised"
    /\ AllRetryableFailures
    /\ rCfg = [max_retries |-> 3, backoff_factor |-> 2, initial_delay |-> 1]
    /\ rSleeps = <<1, 2, 4>>

Min(a, b) == IF a <= b THEN a ELSE b

\* C6: after n add_operation calls on an empty history the file holds exactly
\* min(n, 100) entries: the most recently appended ones, in their original
\* order.
C6_HistoryCap ==
    LET ops == histFile.operations
        kept == Min(hCount, 100)
    IN  /\ Len(ops) = kept
        /\ \A i \in 1..Len(ops) : ops[i].details.seq = hCount - kept + i

C6_Witness ==
    /\ hCount = 105
    /\ Len(histFile.operations) = 100
    /\ histFile.operations[1].details.seq = 6
    /\ histFile.operations[100].details.seq = 105

UndoableIndexes(ops) == {i \in 1..Len(ops) : ops[i].undoable}

\* C7: get_last_undoable_operation returns the latest appended retained entry
\* with undoable = true, also when non-undoable entries follow it, returns an
\* absent value iff no retained entry is undoable, and leaves the list of
\* operations as it was.
C7_LastUndoable ==
    /\ [](hRet.called =>
            LET ops == histFile.operations
                idx == UndoableIndexes(ops)
            IN  IF idx = {} THEN IsNone(hRet.value)
                ELSE /\ ~ IsNone(hRet.value)
                     /\ \E i \in idx : /\ \A j \in idx : j <= i
                                       /\ Val(hRet.value) = ops[i])
    /\ [][hRet'.called => histFile'.operations = histFile.operations]_vars

C7_Witness ==
    /\ hRet.called
    /\ ~ IsNone(hRet.value)
    /\ Len(histFile.operations) = 100
    /\ ~ histFile.operations[100].undoable
    /\ Val(hRet.value).details.seq < hCount
SlotReturned(slot) ==
    ~ fasOut.raised /\ \E k \in 1..Len(fasOut.slots) : fasOut.slots[k] = slot

\* C3: every returned slot overlaps no busy interval of an attendee whose
\* free/busy result carries no error (touching endpoints are no overlap); slot
\* [10:00,10:30) is excluded when [10:15,10:45) is busy and is returned when
\* [10:30,11:00) is busy.
C3_SlotsAvoidBusy ==
    fasPc = "done" =>
        LET a == Val(fasIn)
            busy == CollectBusy(a.freebusy)
            slots == fasOut.slots
            slot == <<At(0, 10, 0), At(0, 10, 30)>>
            asked == /\ a.time_min = At(0, 10, 0)
                     /\ a.time_max = At(0, 11, 30)
                     /\ a.duration_minutes = 30
                     /\ a.timezone = PyStr("UTC")
        IN  /\ \A k \in 1..Len(slots) : \A j \in 1..Len(busy) :
                  slots[k][2] <= busy[j][1] \/ slots[k][1] >= busy[j][2]
            /\ (asked /\ busy = << <<At(0, 10, 15), At(0, 10, 45)>> >>)
                  => ~ SlotReturned(slot)
            /\ (asked /\ busy = << <<At(0, 10, 30), At(0, 11, 0)>> >>)
                  => SlotReturned(slot)

NamedZone(name) == IF name \in DOMAIN ZoneDb THEN ZoneDb[name] ELSE ZoneDb["UTC"]

\* C4: every returned slot is exactly duration_minutes long, lies inside
\* [time_min, time_max] and inside the working hours of its local day, and is
\* on no local Saturday or Sunday when weekends are excluded; with no busy
\* interval and working hours 9-18 the slots of a fully covered weekday start
\* at 09:00, follow each other at duration_minutes and end by 18:00.
C4_SlotShape ==
    fasPc = "done" =>
        LET a == Val(fasIn)
            slots == fasOut.slots
            zone == NamedZone(a.timezone.value)
        IN  /\ \A k \in 1..Len(slots) :
                  LET ls == ToLocal(zone, slots[k][1])
                      le == ToLocal(zone, slots[k][2])
                      day == DateOf(ls) * MinutesPerDay
                  IN  /\ slots[k][2] - slots[k][1] = a.duration_minutes
                      /\ a.time_min <= slots[k][1]
                      /\ slots[k][2] <= a.time_max
                      /\ day + a.working_hours_start * MinutesPerHour <= ls
                      /\ le <= day + a.working_hours_end * MinutesPerHour
                      /\ a.exclude_weekends => Weekday(DateOf(ls)) < 5
            /\ ( /\ CollectBusy(a.freebusy) = <<>>
                 /\ a.working_hours_start = 9
                 /\ a.working_hours_end = 18
                 /\ a.timezone = PyStr("UTC")
                 /\ a.time_min = At(0, 0, 0)
                 /\ a.time_max = At(1, 0, 0) )
               => /\ ~ fasOut.raised
                  /\ Len(slots) > 0
                  /\ slots[1][1] = At(0, 9, 0)
                  /\ \A k \in 2..Len(slots) :
                        slots[k][1] = slots[k - 1][1] + a.duration_minutes
                  /\ slots[Len(slots)][2] <= At(0, 18, 0)
\* The event fields an update_event call was asked to change
ProvidedFields(kw) ==
    (IF IsNone(kw.summary) THEN {} ELSE {"summary"})
    \cup (IF IsNone(kw.start_time) THEN {} ELSE {"start"})
    \cup (IF IsNone(kw.end_time) THEN {} ELSE {"end"})
    \cup (IF IsNone(kw.description) THEN {} ELSE {"description"})
    \cup (IF IsNone(kw.location) THEN {} ELSE {"location"})
    \cup (IF IsNone(kw.attendees) THEN {} ELSE {"attendees"})
    \cup (IF IsNone(kw.recurrence) THEN {} ELSE {"recurrence"})
    \cup (IF IsNone(kw.reminders) THEN {} ELSE {"reminders"})
    \cup (IF IsNone(kw.color_id) THEN {} ELSE {"colorId"})
    \cup (IF kw.add_meet \/ kw.remove_meet THEN {"conferenceData"} ELSE {})

SameField(f, b, k) == (Has(f, k) <=> Has(b, k)) /\ (Has(f, k) => f[k] = b[k])

\* C5: update_event submits the fetched event with only the explicitly
\* provided fields changed: with only a new description, summary, start, end
\* and attendees are those of the fetched event; attendees, recurrence,
\* reminders or color_id of None leave the field as fetched; attendees=[]
\* submits an empty list; color_id="" submits no colorId field.
C5_UpdateFrame ==
    (apiLast.op = "update_event" /\ ~ apiLast.raised) =>
        LET kw == apiLast.kw
            f == apiLast.fetched
            b == apiLast.submitted
        IN  /\ \A k \in (DOMAIN f) \cup (DOMAIN b) :
                  k \notin ProvidedFields(kw) => SameField(f, b, k)
            /\ (ProvidedFields(kw) = {"description"}) =>
                  /\ SameField(f, b, "summary")
                  /\ SameField(f, b, "start")
                  /\ SameField(f, b, "end")
                  /\ SameField(f, b, "attendees")
                  /\ b["description"] = Val(kw.description)
            /\ IsNone(kw.attendees) => SameField(f, b, "attendees")
            /\ IsNone(kw.recurrence) => SameField(f, b, "recurrence")
            /\ IsNone(kw.reminders) => SameField(f, b, "reminders")
            /\ IsNone(kw.color_id) => SameField(f, b, "colorId")
            /\ (~ IsNone(kw.attendees) /\ Len(Val(kw.attendees)) = 0) =>
                  (Has(b, "attendees") /\ Len(b["attendees"]) = 0)
            /\ (~ IsNone(kw.color_id) /\ Val(kw.color_id) = "") =>
                  ~ Has(b, "colorId")
            /\ events["e1"] = b

C5_Witness ==
    /\ apiLast.op = "update_event"
    /\ ~ apiLast.raised
    /\ ProvidedFields(apiLast.kw) = {"attendees", "colorId"}
    /\ Val(apiLast.kw.color_id) = ""
    /\ Len(Val(apiLast.kw.attendees)) = 0
    /\ Has(apiLast.fetched, "colorId")
    /\ Len(apiLast.fetched["attendees"]) = 2
    /\ ~ Has(apiLast.submitted, "colorId")
    /\ apiLast.submitted["summary"] = "Standup"
\* C8: undo right after a successful create deletes the created event; undo
\* right after a successful update re-issues an update with the event captured
\* before the mutation, so that the remote event equals its pre-update state.
C8_UndoReverses ==
    ( /\ cliLast.cmd = "undo"
      /\ cliLast.prev.ok
      /\ cliLast.prev.cmd \in {"create", "update"}
      /\ cliLast.remote_ok ) =>
        LET op == Val(cliLast.op)
            event_id == op.details.event_id
        IN  /\ op = Ops(histFile)[Len(Ops(histFile))]
            /\ op.type = cliLast.prev.cmd
            /\ op.type = "create" => event_id \notin DOMAIN events
            /\ op.type = "update" =>
                  /\ event_id \in DOMAIN events
                  /\ events[event_id] = op.details.original
\* The status the order of C9 gives for the token file a call reads, judged
\* on the scopes the file holds
StatusByFile(unified, service, required_scopes) ==
    LET token_file == TokenFileOf(unified, service)
        f == Val(token_file)
    IN  IF ~ Exists(token_file) THEN "missing"
        ELSE IF ~ f.readable THEN "error"
        ELSE IF /\ ~ IsNone(required_scopes)
                /\ IF Exists(unified)
                   THEN ~ (Val(required_scopes) \subseteq f.scopes)
                   ELSE f.scopes # Val(required_scopes)
             THEN "scope_mismatch"
        ELSE IF f.expired /\ f.refresh_token THEN "expired_refreshable"
        ELSE IF f.expired THEN "expired"
        ELSE "valid"

\* C9: check_token_health returns one status decided in the order missing,
\* error, scope_mismatch (required scopes not a subset of a unified token's
\* scopes, or different from a service token's scopes), expired_refreshable,
\* expired, valid; a scope-mismatched and expired token is scope_mismatch.
C9_TokenHealthOrder ==
    tokLast.op = "check_token_health" =>
        tokLast.status = StatusByFile(tokUnified, tokService, tokLast.required)

\* C10: get_credentials returns either nothing or a currently valid
\* credential, and CalendarAPI raises "Not authenticated" whenever the token
\* is missing, scope-mismatched, or expired and not refreshed.
C10_CredentialsAbsentOrValid ==
    /\ tokLast.op \in {"get_credentials", "CalendarAPI"} =>
          (IsNone(tokLast.creds) \/ Valid(Val(tokLast.creds)))
    /\ tokLast.op = "CalendarAPI" =>
          (IsNone(tokLast.raised) => Valid(Val(tokLast.creds)))
\* C11: for every retry-wrapped operation, a remote failure with status 500,
\* 502, 503 or 504 is retried (up to 3 additional attempts) before the error
\* surfaces, and a remote failure with any other status surfaces after that
\* single attempt and is never retried.
C11_RetryByHttpStatus ==
    (apiLast.op \in RetryWrappedOps) =>
        LET n == Len(rTrace) IN
        \A i \in 1..n :
            ~ rTrace[i].ok =>
                IF rTrace[i].value.context \in RETRYABLE_STATUS_CODES
                THEN \/ i < n
                     \/ rState = "running"
                     \/ i = MAX_RETRIES + 1
                ELSE i = n /\ rState = "raised"
\* What the preference file holds, an absent or corrupt file counting as the
\* default key set
PrefsHeld(file) ==
    IF file.state = "json" THEN JsonLoadDict(file.object)
    ELSE get_default_preferences

\* C12: get_preference(k, d) on a key the store does not hold returns d without
\* raising; after set_preference(k, v), get_preference(k, d) returns v for
\* every d and every other key keeps its value; with invalid JSON in the file
\* neither call raises and both behave as if the file held the default keys.
C12_PreferenceStore ==
    /\ [] ( /\ prefLast.op \in {"get_preference", "set_preference"} =>
                ~ prefLast.raised
            /\ prefLast.op = "get_preference" =>
                LET held == PrefsHeld(prefLast.before)
                IN  prefLast.result =
                        IF prefLast.key \in DOMAIN held THEN held[prefLast.key]
                        ELSE prefLast.default
            /\ prefLast.op = "set_preference" =>
                LET held == PrefsHeld(prefLast.before)
                    now == PrefsHeld(prefFile)
                IN  /\ DOMAIN now = DOMAIN held \cup {prefLast.key}
                    /\ now[prefLast.key] = prefLast.value
                    /\ \A k \in DOMAIN held \ {prefLast.key} : now[k] = held[k] )
    /\ [][ ( /\ prefLast.op = "set_preference"
             /\ prefLast'.op = "get_preference"
             /\ prefLast'.key = prefLast.key )
           => prefLast'.result = prefLast.value ]_vars

C12_Witness ==
    /\ prefLast.op = "get_preference"
    /\ prefLast.before.state = "json"
    /\ prefLast.key = "nickname"
    /\ prefLast.key \in DOMAIN PrefsHeld(prefLast.before)
    /\ prefLast.result = PyInt("7")
    /\ prefLast.default = PyStr("")
\* What C13 gives for one item when the name match is made on the item
\* lowercased and trimmed, as the email match is
ExpectedTrimmed(contacts, item) ==
    LET wanted == Strip(Lower(item))
        named == {i \in 1..Len(contacts) :
                     \/ Lower(contacts[i].name) = wanted
                     \/ Contains(Lower(contacts[i].name), wanted)}
    IN  IF InList(item, "@")
        THEN IF \E i \in 1..Len(contacts) : contacts[i].key = wanted
             THEN (CHOOSE c \in {contacts[i] : i \in 1..Len(contacts)} :
                       c.key = wanted).email
             ELSE item
        ELSE IF named = {} THEN item
             ELSE contacts[CHOOSE i \in named : \A j \in named : i <= j].email

\* What C13 gives for one item as stated: the name match is made on the input
\* lowercased but not trimmed
ExpectedAsStated(contacts, item) ==
    LET named == {i \in 1..Len(contacts) :
                     \/ Lower(contacts[i].name) = Lower(item)
                     \/ Contains(Lower(contacts[i].name), Lower(item))}
    IN  IF InList(item, "@") THEN ExpectedTrimmed(contacts, item)
        ELSE IF named = {} THEN item
             ELSE contacts[CHOOSE i \in named : \A j \in named : i <= j].email

\* C13 (amended): resolve_contacts never raises and returns a list of the
\* input's length and order; an item with '@' whose lowercased, trimmed form is
\* a contact key gives that contact's email, an unknown one is unchanged; an
\* item without '@' gives the email of the first contact whose name equals or
\* contains the item lowercased and trimmed, or is unchanged when none does.
C13_ResolveContacts ==
    ctLast.op = "resolve_contacts" =>
        /\ ~ ctLast.raised
        /\ Len(ctLast.ret) = Len(ctLast.input)
        /\ \A i \in 1..Len(ctLast.input) :
              ctLast.ret[i] = ExpectedTrimmed(ctLast.before.contacts, ctLast.input[i])

C13_Witness ==
    /\ ctLast.op = "resolve_contacts"
    /\ Len(ctLast.before.contacts) = 2
    /\ \/ /\ Len(ctLast.input) = 3
          /\ ctLast.ret = <<E_Eve, E_Al, E_Bob>>
       \/ /\ ctLast.input = <<<<"L","E","E"," ">>>>
          /\ ctLast.ret = <<E_Bob>>

\* C13 as stated: an item without '@' gives the email of the first contact
\* whose name equals or contains the input case-insensitively, else the input.
C13_ResolveAsStated ==
    ctLast.op = "resolve_contacts" =>
        /\ ~ ctLast.raised
        /\ Len(ctLast.ret) = Len(ctLast.input)
        /\ \A i \in 1..Len(ctLast.input) :
              ctLast.ret[i] = ExpectedAsStated(ctLast.before.contacts, ctLast.input[i])
\* The placeholder {{var}} of C14
PlaceholderAsStated(var_name) == <<"{","{">> \o var_name \o <<"}","}">>

RECURSIVE SubstituteAll(_, _)
SubstituteAll(value, kwargs) ==
    IF kwargs = <<>> THEN value
    ELSE SubstituteAll(Replace(value, PlaceholderAsStated(Head(kwargs).name),
                               Head(kwargs).str),
                       Tail(kwargs))

\* C14: render_template returns the stored template in which, in every string
\* field, every {{var}} of a supplied keyword is replaced by str of its value,
\* other placeholders stay, and fields that are neither strings nor lists are
\* unchanged; it raises a not-found error when the template does not exist.
C14_RenderTemplate ==
    tplLast.op = "render_template" =>
        LET file == tplDir[tplLast.name]
        IN  /\ file.state = "absent" => IsNone(tplLast.ret)
            /\ file.state = "json" =>
                  /\ ~ IsNone(tplLast.ret)
                  /\ DOMAIN Val(tplLast.ret) = DOMAIN file.object
                  /\ \A key \in DOMAIN file.object :
                        LET value == file.object[key]
                            out == Val(tplLast.ret)[key]
                        IN  /\ value.kind = "str" =>
                                  out = StrField(SubstituteAll(value.chars,
                                                               tplLast.kwargs))
                            /\ value.kind = "other" => out = value

\* C15: in a create with --template that stored an event, every explicit
\* value the caller passed (the title, and the description and location
\* when given) is the value of the stored event; the template fills only
\* what the caller left out.
C15_ExplicitValuesWin ==
    (/\ cliLast.cmd = "create"
     /\ cliLast.outcome = "ok"
     /\ ~ IsNone(cliLast.given.template))
    => LET event == events[cliLast.event_id]
           given == cliLast.given
       IN  /\ event["summary"] = given.title
           /\ ~ IsNone(given.description)
                  => /\ Has(event, "description")
                     /\ event["description"] = Val(given.description)
           /\ ~ IsNone(given.location)
                  => /\ Has(event, "location")
                     /\ event["location"] = Val(given.location)


\* C16: the account a command hands to the API client is the first of the
\* explicit --account (the command's own or the global one), the
\* GOOGLE_CALENDAR_ACCOUNT variable and the stored default, with an alias
\* resolved to its account whichever of them supplied it (no profile file
\* in the working directory).
C16_AccountResolved ==
    (acctLast.op = "invoke" /\ IsNone(acctProcess.profile))
    => LET config == get_shared_config(acctFile)
           stored == IF ~ IsNone(config.calendar_default_account)
                     THEN config.calendar_default_account
                     ELSE config.default_account
           source == IF ~ IsNone(acctLast.command_flag) THEN acctLast.command_flag
                     ELSE IF ~ IsNone(acctLast.global_flag) THEN acctLast.global_flag
                     ELSE IF ~ IsNone(acctProcess.env) THEN acctProcess.env
                     ELSE stored
       IN  acctLast.api_account =
               IF IsNone(source) THEN None
               ELSE Some(resolve_account(acctFile, Val(source)))


\* The commands that destroy remote data behind a confirmation
DestructiveCommands == {"delete", "delete-calendar", "clear-calendar"}

\* C17: a delete, delete-calendar or clear-calendar command issues its
\* destructive remote call only when it is no dry run and the user answered
\* yes at the prompt; run as a dry run it asks for no confirmation, runs to
\* its dry-run report, issues no destructive call and leaves the history
\* file alone.
C17_ConfirmOrDryRun ==
    [][(cliCount' # cliCount /\ cliLast'.cmd \in DestructiveCommands)
       => /\ cliLast'.remote_call
                => /\ ~ cliLast'.dry_run
                   /\ cliLast'.confirmation.answered_yes
          /\ cliLast'.dry_run
                => /\ ~ cliLast'.confirmation.prompted
                   /\ cliLast'.outcome = "dry run"
                   /\ ~ cliLast'.remote_call
                   /\ histFile' = histFile]_vars

\* C18: every command other than undo that changed the remote calendar
\* appends exactly one history entry, of its own type and naming its event,
\* and a delete's entry is not undoable; a command that changed nothing
\* remotely (its remote call failed, it was a dry run or it was aborted)
\* leaves the recorded operations as they were.
C18_HistoryMatchesMutations ==
    [][(cliCount' # cliCount /\ cliLast'.cmd # "undo")
       => IF cliLast'.mutated
          THEN /\ Len(Ops(histFile')) = Len(Ops(histFile)) + 1
               /\ SubSeq(Ops(histFile'), 1, Len(Ops(histFile))) = Ops(histFile)
               /\ LET entry == Ops(histFile')[Len(Ops(histFile'))]
                  IN  /\ entry.type = cliLast'.cmd
                      /\ entry.details.event_id = cliLast'.event_id
                      /\ entry.type = "delete" => ~ entry.undoable
          ELSE Ops(histFile') = Ops(histFile)]_vars


\* What a call on a store gives when the store is empty
EmptyStoreResult(last) ==
    CASE last.store = "history" -> HistoryOutcome(FileWith(<<>>), last.op, 0).ret
      [] last.store = "preferences" ->
             PreferenceOutcome(AbsentFile, last.key, PyNone).ret
      [] last.store = "contacts" -> ContactsOutcome(AbsentFile).ret
      [] last.store = "config" -> ConfigOutcome(AbsentFile).ret

\* C19: a call that reads a local store whose file holds invalid JSON does
\* not raise and returns what it returns for the empty (default) store;
\* this includes add_operation, get_recent_operations and
\* get_last_undoable_operation on a corrupt history file.
C19_CorruptStoresDegrade ==
    (stLast.op # "none" /\ stLast.corrupt)
    => /\ ~ stLast.raised
       /\ stLast.ret = EmptyStoreResult(stLast)


\* The keys of the stored contacts, in file order
ContactKeys(data) == [i \in 1..Len(data.contacts) |-> data.contacts[i].key]

\* C20: whatever add_contact, update_contact, remove_contact, add_group and
\* remove_group calls were made, every group named by a stored contact is
\* in the groups list; and when remove_group(g) has just returned true, no
\* contact names g and the contacts are those there were before.
C20_ContactGroupsExist ==
    LET data == load_contacts(ctFile)
    IN  /\ \A i \in 1..Len(data.contacts) :
              \A k \in 1..Len(data.contacts[i].groups) :
                 InList(data.groups, data.contacts[i].groups[k])
        /\ (ctLast.op = "remove_group" /\ ctLast.ret)
              => /\ \A i \in 1..Len(data.contacts) :
                       ~ InList(data.contacts[i].groups, ctLast.name)
                 /\ ContactKeys(data) = ContactKeys(ctLast.before)

\* The half-hour cells of day 0 that a list of periods covers
Covered(periods) ==
    {t \in 0..47 : \E k \in 1..Len(periods) :
        periods[k][1] <= 30 * t /\ 30 * t < periods[k][2]}

\* C21: for any multiset of busy intervals collected from the attendees
\* without errors, the merged list is sorted by start, its intervals are
\* pairwise disjoint and do not touch, and it covers exactly what the inputs
\* cover; [9:00,10:00), [9:30,11:00), [13:00,14:00) merge into
\* [9:00,11:00), [13:00,14:00).
C21_MergedBusy ==
    mgOut # None
    => LET inputs == CollectBusy(mgIn)
           merged == Val(mgOut)
       IN  /\ \A k \in 1..Len(merged) : merged[k][1] < merged[k][2]
           /\ \A k \in 1..(Len(merged) - 1) : merged[k][2] < merged[k + 1][1]
           /\ Covered(merged) = Covered(inputs)
           /\ (inputs = <<<<At(0, 13, 0), At(0, 14, 0)>>,
                          <<At(0, 9, 0), At(0, 10, 0)>>,
                          <<At(0, 9, 30), At(0, 11, 0)>>>>)
              => merged = <<<<At(0, 9, 0), At(0, 11, 0)>>,
                            <<At(0, 13, 0), At(0, 14, 0)>>>>

\* three busy periods of two attendees, one contained in another and one
\* apart, have been merged into two
C21_Witness ==
    /\ mgOut # None
    /\ ~ mgIn[1].errors
    /\ Len(CollectBusy(mgIn)) = 3
    /\ \E i, j \in 1..3 :
          LET inputs == CollectBusy(mgIn)
          IN  /\ i # j
              /\ inputs[i][1] <= inputs[j][1]
              /\ inputs[j][2] < inputs[i][2]
    /\ Len(Val(mgOut)) = 2

\* C22: for any number of keyword arguments (none, one, several), every list
\* field of what render_template returns has as many elements as the stored
\* list, in the stored order, each string element with the placeholders
\* substituted.
C22_ListFieldsElementwise ==
    (tplLast.op = "render_template" /\ tplLast.ret # None)
    => LET stored == Val(get_template(tplDir, tplLast.name))
           rendered == Val(tplLast.ret)
       IN  \A key \in DOMAIN stored :
              stored[key].kind = "list"
              => /\ rendered[key].kind = "list"
                 /\ Len(rendered[key].items) = Len(stored[key].items)
                 /\ \A i \in 1..Len(stored[key].items) :
                       rendered[key].items[i]
                          = ReplaceEach(stored[key].items[i], tplLast.kwargs)

\* C23: one invocation of a retry-wrapped operation performs each of its
\* remote calls at most max_retries + 1 = 4 times, also when the operation
\* calls another retry-wrapped operation (update_event calling get_event,
\* search_contacts calling list_contacts).
C23_RemoteCallsBounded ==
    /\ nsCalls.inner <= MAX_RETRIES + 1
    /\ nsCalls.outer <= MAX_RETRIES + 1

\* The emails of a list of attendee entries, in order
EmailsOf(attendees) == [i \in 1..Len(attendees) |-> attendees[i].email]

\* C24: add_attendees appends to the event only the input emails that are
\* not already attendees, each of them at most once (also when the input
\* repeats an email); when no input email is new it returns the fetched
\* event and makes no update call.
C24_AddAttendeesOnce ==
    (apiLast.op = "add_attendees" /\ ~ apiLast.raised)
    => LET before == EmailsOf(AttendeesOf(apiLast.fetched))
           after == EmailsOf(AttendeesOf(events[apiLast.event_id]))
           appended == SubSeq(after, Len(before) + 1, Len(after))
           given == {apiLast.attendee_emails[i] :
                        i \in 1..Len(apiLast.attendee_emails)}
           present == {before[i] : i \in 1..Len(before)}
       IN  /\ Len(after) >= Len(before)
           /\ SubSeq(after, 1, Len(before)) = before
           /\ {appended[i] : i \in 1..Len(appended)} = given \ present
           /\ \A i, j \in 1..Len(appended) :
                 appended[i] = appended[j] => i = j
           /\ (given \subseteq present)
              => (~ apiLast.updated /\ apiLast.ret = apiLast.fetched)

\* Both processes read the file before either opened it for writing, and
\* both have finished
BothReadFirst ==
    /\ \A p \in Procs : rcPc[p] = "done" /\ Val(rcLocal[p]).early

\* The stored file shows the change process p made
ShowsChange(p) ==
    IF rcStore = "history"
    THEN /\ ~ histFile.corrupt
         /\ InList(histFile.operations, RaceOperation(p))
    ELSE /\ prefFile.state = "json"
         /\ load_preferences(prefFile)[RaceKey(p)] = RaceValue(p)

\* C25: the read-modify-write of history.json and preferences.json is not
\* locked: when two add_operation calls (or two set_preference calls on
\* different keys) both read before either writes, the file afterwards does
\* not hold both changes -- one of them is lost; and in every interleaving
\* the stored history has at most 100 entries.
C25_UnlockedReadModifyWrite ==
    /\ Len(histFile.operations) <= MAX_HISTORY_ENTRIES
    /\ BothReadFirst => ~ (ShowsChange(1) /\ ShowsChange(2))

\* two add_operation calls have interleaved that way and the history holds
\* the entry of the second process only
C25_Witness ==
    /\ rcStore = "history"
    /\ BothReadFirst
    /\ ShowsChange(2)
    /\ ~ ShowsChange(1)
    /\ Len(histFile.operations) = MAX_HISTORY_ENTRIES

DayWindow(a, date) ==
    [from |-> Max(a.time_min, At(date, a.working_hours_start, 0)),
     to |-> IF At(date, a.working_hours_end, 0) > a.time_max
            THEN a.time_max ELSE At(date, a.working_hours_end, 0)]

\* Some stretch of `a.duration_minutes` inside the day window, starting on a
\* quarter hour, meets no busy period of any attendee
HasFreeGap(a, date) ==
    \E q \in 0..95 :
        LET t == At(date, 0, 0) + 15 * q
        IN  /\ DayWindow(a, date).from <= t
            /\ t + a.duration_minutes <= DayWindow(a, date).to
            /\ SlotIsFree(t, t + a.duration_minutes, MergeStep(a.freebusy))

\* C27: find_available_slots is complete -- whenever a day of the window
\* that is not an excluded weekend day has a free gap of at least the
\* duration inside the working hours, the call returns at least one slot
\* inside that day's working hours.
C27_SlotSearchComplete ==
    (slPc = "done" /\ slIn # None)
    => LET a == Val(slIn)
       IN  a.duration_minutes > 0
           => \A date \in DateOf(a.time_min)..DateOf(a.time_max) :
                 ( ~ (a.exclude_weekends /\ Weekday(date) >= 5)
                   /\ HasFreeGap(a, date) )
                 => /\ ~ Val(slOut).raised
                    /\ \E k \in 1..Len(Val(slOut).slots) :
                          /\ DayWindow(a, date).from <= Val(slOut).slots[k][1]
                          /\ Val(slOut).slots[k][2] <= DayWindow(a, date).to

\* C28: a refresh rewrites the token file with the scope set the file had
\* before; after the refresh of a unified token that held the Calendar and
\* Gmail scopes the file's scope set still includes them.
C28_RefreshKeepsScopes ==
    [][ LET before == TokenFileOf(tokUnified, tokService)
            after == TokenFileOf(tokUnified', tokService')
        IN  (Exists(before) /\ after # before)
            => /\ Exists(after)
               /\ Val(after).scopes = Val(before).scopes
               /\ (Exists(tokUnified)
                   /\ (SCOPES \cup {GmailReadonly}) \subseteq Val(before).scopes)
                  => (SCOPES \cup {GmailReadonly}) \subseteq Val(after).scopes
      ]_vars

\* C29: once undo has succeeded for a history entry, the next undo does not
\* select that entry again.
C29_UndoneEntryNotReselected ==
    [][ ( /\ cliLast.cmd = "undo" /\ cliLast.outcome = "ok"
          /\ cliCount' = cliCount + 1
          /\ cliLast'.cmd = "undo" )
        => cliLast'.op # cliLast.op ]_vars

\* C30: one invocation of create_event inserts at most one event, also when
\* an insert that the server accepted fails on the client with a retryable
\* error.
C30_AtMostOneInsert ==
    insPc # "idle" => nextId <= 1 /\ Cardinality(DOMAIN events) <= 1

====
